---- MODULE Spec2Model ----
(***************************************************************************)
(* Model of runperf's result comparison engine (runperf/result.py):       *)
(* ResultsContainer, RelativeResults, AveragesModel, the linear           *)
(* regression model's check_result and closest_result's selection.        *)
(*                                                                         *)
(* Numbers are exact rationals <<numerator, denominator>> in lowest terms *)
(* with a positive denominator; python floats are modelled by them.       *)
(***************************************************************************)
EXTENDS Integers, Sequences, FiniteSets, TLC

\* ------------------------------------------------------------------------
\* Bounds of the model
\* ------------------------------------------------------------------------
MaxRecords == 2
MaxGrouped == 6
MaxDstLen == 2
MaxCalls == 9
NoResults == 3
MaxTotal == 2
MaxSamples == 12
MaxCpus == 90
MaxTime == 4
MaxTimeout == 2
MaxAttempts == 3

\* ------------------------------------------------------------------------
\* Status codes (result.py:36-42)
\* ------------------------------------------------------------------------
PASS == 0
SKIP == 99
MINOR_GAIN == 1
MINOR_LOSS == 2
FAIL_LOSS == -1
FAIL == FAIL_LOSS
FAIL_GAIN == -3
ERROR == -2

\* AveragesModel.COEFFICIENT (result.py:440)
COEFFICIENT == 2

\* ------------------------------------------------------------------------
\* Rational arithmetic
\* ------------------------------------------------------------------------
RECURSIVE Gcd(_, _)
Gcd(a, b) == IF b = 0 THEN a ELSE Gcd(b, a % b)

IAbs(i) == IF i < 0 THEN -i ELSE i

Norm(n, d) ==
    LET g == Gcd(IAbs(n), IAbs(d))
        s == IF d < 0 THEN -1 ELSE 1
    IN <<(s * n) \div g, (s * d) \div g>>

R(i) == <<i, 1>>

\* sums, products and comparisons cancel common factors before they
\* multiply, to keep the intermediate integers small
RAdd(x, y) ==
    LET g == Gcd(x[2], y[2])
    IN Norm(x[1] * (y[2] \div g) + y[1] * (x[2] \div g),
            (x[2] \div g) * y[2])
RNeg(x) == <<-x[1], x[2]>>
RSub(x, y) == RAdd(x, RNeg(y))
RMul(x, y) ==
    LET g1 == Gcd(IAbs(x[1]), y[2])
        g2 == Gcd(IAbs(y[1]), x[2])
    IN IF x[1] = 0 \/ y[1] = 0 THEN <<0, 1>>
       ELSE Norm((x[1] \div g1) * (y[1] \div g2),
                 (x[2] \div g2) * (y[2] \div g1))
\* division by a non-zero rational
RDiv(x, y) ==
    IF y[1] < 0 THEN RMul(x, <<-y[2], -y[1]>>) ELSE RMul(x, <<y[2], y[1]>>)
RAbs(x) == <<IAbs(x[1]), x[2]>>
RLt(x, y) ==
    LET g == Gcd(x[2], y[2])
    IN x[1] * (y[2] \div g) < y[1] * (x[2] \div g)
RLe(x, y) ==
    LET g == Gcd(x[2], y[2])
    IN x[1] * (y[2] \div g) <= y[1] * (x[2] \div g)
RGt(x, y) == RLt(y, x)
RIsZero(x) == x[1] = 0

\* a value bound to a name: the local variable v of Body
With(v, Body(_)) == Body(v)

\* ------------------------------------------------------------------------
\* get_uncertainty (result.py:58-65); defined for no_samples > 0, the
\* code raises ValueError otherwise
\* ------------------------------------------------------------------------
coefficients == << <<7, 1>>, <<23, 10>>, <<17, 10>>, <<7, 5>>,
                   <<13, 10>>, <<13, 10>>, <<6, 5>>, <<6, 5>> >>

\* the table read for every count below 8 only
get_uncertainty_below_8(no_samples) ==
    IF no_samples < 8 THEN coefficients[no_samples] ELSE R(1)

get_uncertainty(no_samples) ==
    IF no_samples <= 8 THEN coefficients[no_samples] ELSE R(1)

\* the ValueError of result.py:61-62
get_uncertainty_raises(no_samples) == no_samples <= 0

\* ------------------------------------------------------------------------
\* Measurement values: a number or a text (the exception of an .error
\* entry, result.py:424-431)
\* ------------------------------------------------------------------------
Num(r) == [kind |-> "num", num |-> r, str |-> ""]
Str(s) == [kind |-> "str", num |-> R(0), str |-> s]
None == [kind |-> "none", num |-> R(0), str |-> ""]

\* ------------------------------------------------------------------------
\* Test names: the fields Result._re_name splits a name into
\* (result.py:262-263, 307-323).  iteration_name_extra is "" when the
\* iteration name carries no "-extra" part.
\* ------------------------------------------------------------------------
Name(p, t, s, i, x, w, wt, c) ==
    [profile |-> p, test |-> t, serial |-> s, iteration_name |-> i,
     iteration_name_extra |-> x, workflow |-> w, workflow_type |-> wt,
     check_type |-> c]

NameA == Name("p1", "fio", "0000", "read", "a", "throughput", "iops", "mean")
NameB == Name("p1", "fio", "0000", "read", "b", "throughput", "iops", "mean")
NameC == Name("p2", "fio", "0000", "read", "a", "throughput", "iops", "mean")
NameS == Name("p1", "fio", "0000", "read", "a", "throughput", "iops", "stddev")
NameE == Name("*", "*", "*", "ERROR", "", "ERROR", "ERROR", "error")

endswith_mean(test_name) == test_name.check_type = "mean"
endswith_stddev(test_name) == test_name.check_type = "stddev"

\* Result.get_merged_name (result.py:301-324) for a non-empty merge
get_merged_name(name, merge) ==
    [profile |-> IF "profile" \in merge THEN "*" ELSE name.profile,
     test |-> IF "test" \in merge THEN "*" ELSE name.test,
     serial |-> IF "serial" \in merge THEN "*" ELSE name.serial,
     iteration_name |-> IF "iteration_name" \in merge THEN "*"
                        ELSE name.iteration_name,
     iteration_name_extra |->
         IF "iteration_name_extra" \in merge THEN "*"
         ELSE IF name.iteration_name_extra = "" THEN "*"
         ELSE name.iteration_name_extra,
     workflow |-> IF "workflow" \in merge THEN "*" ELSE name.workflow,
     workflow_type |-> IF "workflow_type" \in merge THEN "*"
                       ELSE name.workflow_type,
     check_type |-> IF "check_type" \in merge THEN "*" ELSE name.check_type]

\* Result.__init__ (result.py:265-284); details keeps the opinion labels
\* in the order the report lists them and the tolerance it prints
Result(status, score, test, src, dst, details, primary) ==
    [status |-> status, score |-> score, name |-> test, src |-> src,
     dst |-> dst, details |-> details, primary |-> primary]

is_stddev(result) == endswith_stddev(result.name)

\* ------------------------------------------------------------------------
\* Models.  An opinion is what Model.check_result returns per entry
\* (result.py:76-88): (check_name, difference, weight, source value).
\* ------------------------------------------------------------------------
Opinion(name, difference, weight, src) ==
    [name |-> name, difference |-> difference, weight |-> weight, src |-> src]

\* ModelLinearRegression.check_result (result.py:124-140); model is the
\* trained dictionary, a function from test names to [equation, raw]
mraw_difference(test_name, src, dst, msrc) ==
    IF endswith_mean(test_name)
    THEN IF src = Num(R(0)) THEN R(0)
         ELSE RMul(RDiv(RSub(dst.num, msrc.num), RAbs(msrc.num)), R(100))
    ELSE RSub(msrc.num, dst.num)

linreg_check_result(model, test_name, src, dst) ==
    IF test_name \notin DOMAIN model THEN <<>>
    ELSE LET equation == model[test_name].equation
             msrc == model[test_name].raw
             out == << Opinion("model",
                               RAdd(RMul(equation[1], dst.num), equation[2]),
                               R(1), msrc) >>
         IN IF msrc # None
            THEN Append(out, Opinion("mraw",
                                     mraw_difference(test_name, src, dst, msrc),
                                     R(0), None))
            ELSE out

\* Model.check_result (result.py:76-88) dispatched on the model's class: a
\* ModelLinearRegression, or another Model implementation that answers
\* every check with its one configured opinion
check_result(model, test_name, src, dst) ==
    IF model.kind = "linreg"
    THEN linreg_check_result(model.model, test_name, src, dst)
    ELSE << Opinion(model.name, model.difference, model.weight, None) >>

\* ------------------------------------------------------------------------
\* AveragesModel (result.py:434-464): averages maps a name to <<sum, count>>
\* ------------------------------------------------------------------------
AveragesModel(weight) == [averages |-> <<>>, weight |-> weight, last |-> FALSE]

averages_entry(self, name) ==
    IF name \in DOMAIN self.averages THEN self.averages[name]
    ELSE <<R(0), 0>>

\* the accumulation of check_result (result.py:452-453)
averages_accumulate(self, name, score) ==
    LET entry == averages_entry(self, name)
    IN [self EXCEPT !.averages =
           (name :> <<RAdd(entry[1], score), entry[2] + 1>>) @@ self.averages]

\* averages_weight corrected by the uncertainty whatever the count
averages_weight_always_corrected(self, count) ==
    RDiv(self.weight, get_uncertainty(count))

\* the weight of the "avg" opinion (result.py:459-462)
averages_weight(self, count) ==
    IF count < 8 THEN RDiv(self.weight, get_uncertainty(count))
    ELSE self.weight

\* the opinions check_result returns after the accumulation
\* (result.py:454-464); self is the model after averages_accumulate
averages_opinions(self, name) ==
    IF ~self.last THEN <<>>
    ELSE IF name \in DOMAIN self.averages
    THEN LET entry == self.averages[name]
             score == RMul(RDiv(entry[1], R(entry[2])), R(COEFFICIENT))
         IN << Opinion("avg", score, averages_weight(self, entry[2]), None) >>
    ELSE <<>>

\* ------------------------------------------------------------------------
\* RelativeResults._calculate_test_difference (result.py:571-585):
\* <<difference, tolerance>>
\* ------------------------------------------------------------------------
calculate_test_difference(mean_tol, stddev_tol, test_name, src, dst) ==
    IF endswith_mean(test_name)
    THEN IF src = Num(R(0)) THEN <<R(0), mean_tol>>
         ELSE <<RMul(RDiv(RSub(dst.num, src.num), RAbs(src.num)), R(100)),
                mean_tol>>
    ELSE IF endswith_stddev(test_name)
    THEN <<RSub(src.num, dst.num), stddev_tol>>
    ELSE <<IF src = dst THEN R(0) ELSE R(1), R(0)>>

\* ------------------------------------------------------------------------
\* record_result.WeightedResult (result.py:593-656)
\* ------------------------------------------------------------------------
WeightedResult(dst, tolerance) ==
    [srcs |-> <<>>, dst |-> dst, tolerance |-> tolerance, good |-> <<>>,
     small |-> <<>>, big |-> <<>>, agg_diffs |-> R(0), agg_weights |-> R(0)]

\* WeightedResult.add (result.py:607-620); a message is the opinion's name
\* with the index of its model (-1 for the empty index)
wr_add(self, model_idx, name, difference, weight, src) ==
    LET msg == <<name, model_idx>>
        s1 == [self EXCEPT
                 !.agg_diffs = RAdd(self.agg_diffs, RMul(difference, weight)),
                 !.agg_weights = RAdd(self.agg_weights, weight),
                 !.srcs = IF src # None THEN Append(self.srcs, src)
                          ELSE self.srcs]
    IN IF RGt(RAbs(difference), self.tolerance)
       THEN IF RGt(difference, R(0))
            THEN [s1 EXCEPT !.big = Append(self.big, msg)]
            ELSE [s1 EXCEPT !.small = Append(self.small, msg)]
       ELSE [s1 EXCEPT !.good = Append(self.good, msg)]

RECURSIVE wr_add_all(_, _, _)
wr_add_all(self, model_idx, opinions) ==
    IF opinions = <<>> THEN self
    ELSE LET o == Head(opinions)
         IN wr_add_all(wr_add(self, model_idx, o.name, o.difference,
                              o.weight, o.src),
                       model_idx, Tail(opinions))

\* WeightedResult.score (result.py:622-624) divides by agg_weights
wr_score_raises(self) == RIsZero(self.agg_weights)
wr_score(self) == RDiv(self.agg_diffs, self.agg_weights)

\* report_status with the tolerance band taken without its border
report_status_strict(diff, tolerance) ==
    IF RLt(RAbs(diff), tolerance)
    THEN LET minor_tolerance == RDiv(tolerance, R(2))
         IN IF RGt(diff, minor_tolerance) THEN MINOR_GAIN
            ELSE IF RLt(diff, minor_tolerance) THEN MINOR_LOSS
            ELSE PASS
    ELSE IF RGt(diff, R(0)) THEN FAIL_GAIN
    ELSE FAIL_LOSS

\* the status WeightedResult.report chooses (result.py:629-644)
report_status(diff, tolerance) ==
    IF RLe(RAbs(diff), tolerance)
    THEN LET minor_tolerance == RDiv(tolerance, R(2))
         IN IF RGt(diff, minor_tolerance) THEN MINOR_GAIN
            ELSE IF RLt(diff, minor_tolerance) THEN MINOR_LOSS
            ELSE PASS
    ELSE IF RGt(diff, R(0)) THEN FAIL_GAIN
    ELSE FAIL_LOSS

\* the order WeightedResult.report lists the sections in (result.py:630-643)
report_sections(diff, tolerance) ==
    IF RLe(RAbs(diff), tolerance) THEN <<"good", "big", "small">>
    ELSE IF RGt(diff, R(0)) THEN <<"big", "good", "small">>
    ELSE <<"small", "good", "big">>

section_values(self, section) ==
    IF section = "good" THEN self.good
    ELSE IF section = "big" THEN self.big
    ELSE self.small

RECURSIVE report_out(_, _)
report_out(self, sections) ==
    IF sections = <<>> THEN <<>>
    ELSE LET values == section_values(self, Head(sections))
             rest == report_out(self, Tail(sections))
         IN IF values # <<>> THEN << <<Head(sections), values>> >> \o rest
            ELSE rest

\* WeightedResult.report (result.py:626-656)
wr_report(self, test_name, primary) ==
    LET diff == wr_score(self)
    IN Result(report_status(diff, self.tolerance), diff, test_name,
              self.srcs[Len(self.srcs)], self.dst,
              [text |-> "report",
               out |-> report_out(self, report_sections(diff, self.tolerance)),
               tolerance |-> self.tolerance],
              primary)

\* ------------------------------------------------------------------------
\* RelativeResults (result.py:537-922); self.records and
\* self.grouped_records are sequences of Results
\* ------------------------------------------------------------------------
RelativeResults == [records |-> <<>>, grouped_records |-> <<>>]

\* record without the grouped flag
record_ungrouped(self, result, grouped) ==
    [self EXCEPT !.records = Append(self.records, result)]

\* record putting the result in front of the others
record_in_front(self, result, grouped) ==
    IF grouped
    THEN [self EXCEPT !.grouped_records = <<result>> \o self.grouped_records]
    ELSE [self EXCEPT !.records = <<result>> \o self.records]

\* RelativeResults.record (result.py:554-564)
record(self, result, grouped) ==
    IF grouped
    THEN [self EXCEPT !.grouped_records = Append(self.grouped_records, result)]
    ELSE [self EXCEPT !.records = Append(self.records, result)]

\* the Result record_broken builds (result.py:568-569)
\* (its details are the given text; no tolerance is printed)
broken_result(test_name, details, primary) ==
    Result(ERROR, R(-100), test_name, Num(R(0)), Num(R(-100)),
           [text |-> details, out |-> <<>>, tolerance |-> R(0)], primary)

\* RelativeResults.record_broken (result.py:566-569)
record_broken(self, test_name, details, primary) ==
    record(self, broken_result(test_name, details, primary), FALSE)

\* the loop over self.models of record_result (result.py:665-667)
RECURSIVE add_models(_, _, _, _, _, _)
add_models(msg, mdls, i, test_name, src, dst) ==
    IF i > Len(mdls) THEN msg
    ELSE add_models(wr_add_all(msg, i - 1,
                               check_result(mdls[i], test_name, src, dst)),
                    mdls, i + 1, test_name, src, dst)

\* raw_weight of 1 whatever the models said
raw_weight_always(msg) == R(1)

\* raw_weight without the fallback to 1
raw_weight_never(msg) == R(0)

\* the weight record_result gives to the raw difference (result.py:664-669)
raw_weight(msg) == IF RIsZero(msg.agg_weights) THEN R(1) ELSE R(0)

\* result_difference computed from the name even when given
result_difference_recomputed(mean_tol, stddev_tol, test_name, src, dst, explicit, difference, tol) ==
    calculate_test_difference(mean_tol, stddev_tol, test_name, src, dst)

\* the difference and tolerance record_result works with (result.py:658-660)
result_difference(mean_tol, stddev_tol, test_name, src, dst, explicit, difference, tol) ==
    IF explicit THEN <<difference, tol>>
    ELSE calculate_test_difference(mean_tol, stddev_tol, test_name, src, dst)

\* RelativeResults.record_result (result.py:587-674) up to the call of
\* self.record: the Result it builds, the AveragesModel it leaves, the sums
\* of weights at its two divisions, and whether a division raised
record_result(mean_tol, stddev_tol, mdls, avgs, test_name, src, dst, primary, explicit, difference, tol) ==
    With(result_difference(mean_tol, stddev_tol, test_name, src, dst,
                           explicit, difference, tol), LAMBDA dt :
    With(add_models(WeightedResult(dst, dt[2]), mdls, 1, test_name, src, dst),
         LAMBDA m1 :
    With(wr_add(m1, -1, "raw", dt[1], raw_weight(m1), src), LAMBDA m2 :
    IF wr_score_raises(m2)
    THEN [raised |-> TRUE, averages |-> avgs, weights |-> <<m2.agg_weights>>]
    ELSE
    With(averages_accumulate(avgs, test_name, wr_score(m2)), LAMBDA av :
    With(wr_add_all(m2, -1, averages_opinions(av, test_name)), LAMBDA m3 :
    IF wr_score_raises(m3)
    THEN [raised |-> TRUE, averages |-> av,
          weights |-> <<m2.agg_weights, m3.agg_weights>>]
    ELSE [raised |-> FALSE, averages |-> av,
          weights |-> <<m2.agg_weights, m3.agg_weights>>,
          result |-> wr_report(m3, test_name, primary)])))))

\* ------------------------------------------------------------------------
\* Grouped results (result.py:838-871)
\* ------------------------------------------------------------------------
RECURSIVE SeqSum(_)
SeqSum(values) ==
    IF values = <<>> THEN R(0) ELSE RAdd(Head(values), SeqSum(Tail(values)))

\* numpy.average of a non-empty list
average(values) == RDiv(SeqSum(values), R(Len(values)))

\* the keys of the values dictionary of _expand_grouped_result in insertion
\* order (result.py:844-847)
RECURSIVE group_names(_, _, _)
group_names(recs, merge, seen) ==
    IF recs = <<>> THEN seen
    ELSE LET record_id == get_merged_name(Head(recs).name, merge)
         IN group_names(Tail(recs), merge,
                        IF \E k \in 1..Len(seen) : seen[k] = record_id
                        THEN seen ELSE Append(seen, record_id))

\* values[record_id]: the scores of the group in record order
RECURSIVE group_values(_, _, _)
group_values(recs, merge, record_id) ==
    IF recs = <<>> THEN <<>>
    ELSE LET rest == group_values(Tail(recs), merge, record_id)
         IN IF get_merged_name(Head(recs).name, merge) = record_id
            THEN <<Head(recs).score>> \o rest
            ELSE rest

\* the tolerance of a group (result.py:850-851)
group_tolerance(mean_tol, size) ==
    RDiv(RMul(mean_tol, get_uncertainty(size)), R(2))

\* the second loop of _expand_grouped_result (result.py:848-853) over the
\* group names; st is [rr, averages, raised]
RECURSIVE expand_groups(_, _, _, _, _, _, _)
expand_groups(st, mean_tol, stddev_tol, mdls, recs, merge, names) ==
    IF names = <<>> \/ st.raised THEN st
    ELSE expand_groups(
             With(group_values(recs, merge, Head(names)), LAMBDA values :
             With(average(values), LAMBDA value :
             With(record_result(mean_tol, stddev_tol, mdls, st.averages,
                                Head(names), Num(value), Num(value), TRUE,
                                TRUE, value,
                                group_tolerance(mean_tol, Len(values))),
                  LAMBDA res :
             IF res.raised
             THEN [st EXCEPT !.averages = res.averages, !.raised = TRUE]
             ELSE [st EXCEPT !.averages = res.averages,
                             !.rr = record(st.rr, res.result, TRUE)]))),
             mean_tol, stddev_tol, mdls, recs, merge, Tail(names))

\* RelativeResults._expand_grouped_result (result.py:838-853)
expand_grouped_result(st, mean_tol, stddev_tol, mdls, recs, merge) ==
    expand_groups(st, mean_tol, stddev_tol, mdls, recs, merge,
                  group_names(recs, merge, <<>>))

\* the three merges of expand_grouped_results (result.py:862-871)
MergeExtra == {"iteration_name_extra"}
MergeExtraProfile == {"iteration_name_extra", "profile"}
MergeAllButProfile == {"test", "serial", "iteration_name",
                       "iteration_name_extra", "workflow", "workflow_type"}
Merges == <<MergeExtra, MergeExtraProfile, MergeAllButProfile>>

\* every primary record grouped, broken ones included
grouped_input_broken_too(rec) == rec.primary /\ ~is_stddev(rec)

\* the records expand_grouped_results groups (result.py:859-861)
grouped_input(rec) == rec.primary /\ rec.status # ERROR /\ ~is_stddev(rec)

RECURSIVE SelectRecords(_)
SelectRecords(recs) ==
    IF recs = <<>> THEN <<>>
    ELSE IF grouped_input(Head(recs))
    THEN <<Head(recs)>> \o SelectRecords(Tail(recs))
    ELSE SelectRecords(Tail(recs))

\* RelativeResults.expand_grouped_results (result.py:855-871)
expand_grouped_results(rr, avgs, mean_tol, stddev_tol, mdls) ==
    With(SelectRecords(rr.records), LAMBDA recs :
    expand_grouped_result(
        expand_grouped_result(
            expand_grouped_result(
                [rr |-> rr, averages |-> avgs, raised |-> FALSE],
                mean_tol, stddev_tol, mdls, recs, Merges[1]),
            mean_tol, stddev_tol, mdls, recs, Merges[2]),
        mean_tol, stddev_tol, mdls, recs, Merges[3]))

\* ------------------------------------------------------------------------
\* RelativeResults.finish (result.py:887-922)
\* ------------------------------------------------------------------------
failures(rr) ==
    Cardinality({k \in 1..Len(rr.records) :
                    rr.records[k].status < 0 /\ rr.records[k].primary})

non_primary_failures(rr) ==
    Cardinality({k \in 1..Len(rr.records) :
                    rr.records[k].status < 0 /\ ~rr.records[k].primary})

grouped_failures(rr) ==
    Cardinality({k \in 1..Len(rr.grouped_records) :
                    rr.grouped_records[k].status < 0})

\* finish counting the failures of non-primary records as well
finish_any_failure(rr) ==
    IF failures(rr) # 0 \/ non_primary_failures(rr) # 0
       \/ grouped_failures(rr) # 0 THEN 2
    ELSE IF rr.records = <<>> THEN 3
    ELSE 0

finish(rr) ==
    IF failures(rr) # 0 \/ grouped_failures(rr) # 0 THEN 2
    ELSE IF rr.records = <<>> THEN 3
    ELSE 0

\* ------------------------------------------------------------------------
\* State
\* ------------------------------------------------------------------------
VARIABLES
    mean_tolerance,     \* ResultsContainer.tolerance / RelativeResults.mean_tolerance
    stddev_tolerance,   \* the stddev tolerance
    models,             \* the list of models
    averages,           \* the AveragesModel shared by all RelativeResults
    src_results,        \* ResultsContainer.src_results: name -> [score, primary]
    results,            \* ResultsContainer.results in insertion order:
                        \* [name, res] with res a RelativeResults
    call,               \* the last call and what it returned
    stats,              \* closest_result: the two lists of totals
    selection,          \* closest_result: the surviving candidates
    pc,                 \* closest_result: position in its final loop
    ret,                \* closest_result: the returned index (-1: none yet)
    baseline,           \* closest_result: the tuples iter_results yields
                        \* for src_path
    candidates,         \* closest_result: per path of dst_paths, the tuples
                        \* iter_results yields for it
    wait                \* utils.wait_for: the clock and the frame of the call

vars == <<mean_tolerance, stddev_tolerance, models, averages, src_results,
          results, call, stats, selection, pc, ret, baseline, candidates,
          wait>>

container_vars == <<mean_tolerance, stddev_tolerance, models, averages,
                    src_results, results>>
closest_vars == <<stats, selection, pc, ret, baseline, candidates>>

\* no wait_for call in progress, the clock at 0
WaitIdle == [pc |-> "idle", now |-> 0, end_time |-> 0, read |-> 0,
             outputs |-> <<>>, ret |-> <<>>, start |-> 0, timeout |-> 0,
             step |-> 0]

\* ------------------------------------------------------------------------
\* Configurations and inputs
\* ------------------------------------------------------------------------
\* the equation ModelLinearRegression.identify fits with tolerance 10 to
\* samples of average 100 lying within 100 +- 100/11: 1.1 * x - 110
TrainedA == [kind |-> "linreg",
             model |-> (NameA :> [equation |-> << <<11, 10>>, R(-110) >>,
                                  raw |-> Num(R(100))])]
\* the same model loaded from the old format (raw unknown)
LegacyA == [kind |-> "linreg",
            model |-> (NameA :> [equation |-> << <<11, 10>>, R(-110) >>,
                                 raw |-> None])]
\* a model whose only opinion is informational (weight 0)
Informational == [kind |-> "custom", name |-> "ext", difference |-> R(20),
                  weight |-> R(0)]
\* <<models, configured weight of the AveragesModel, its last flag>>
Configs ==
    { << <<>>, R(1), FALSE >>,
      << <<>>, R(1), TRUE >>,
      << <<TrainedA>>, R(0), TRUE >>,
      << <<LegacyA, Informational>>, R(1), TRUE >> }

Exc1 == Str("exc1")
Exc2 == Str("exc2")
N(i) == Num(R(i))

\* <<test_name, src, dst, primary>> of direct record_result calls
RecordInputs ==
    { <<NameA, N(100), N(80), TRUE>>, <<NameA, N(100), N(104), TRUE>>,
      <<NameA, N(100), N(106), TRUE>>, <<NameA, N(100), N(120), TRUE>>,
      <<NameB, N(100), N(120), TRUE>>, <<NameS, N(10), N(20), TRUE>>,
      <<NameE, Exc1, Exc2, FALSE>>, <<NameE, Exc1, Exc1, TRUE>> }

\* <<test_name, primary>> of direct record_broken calls
BrokenInputs == { <<NameA, TRUE>> }

\* ------------------------------------------------------------------------
\* Operations of one RelativeResults, results[i].res
\* ------------------------------------------------------------------------
\* record_result(test_name, src, dst, primary) (result.py:587-674)
RecordResult(i, test_name, src, dst, primary) ==
    /\ i \in 1..Len(results)
    /\ Len(results[i].res.records) < MaxRecords
    /\ \E r \in {record_result(mean_tolerance, stddev_tolerance, models,
                              averages, test_name, src, dst, primary, FALSE,
                              R(0), R(0))} :
          /\ averages' = r.averages
          /\ results' = IF r.raised THEN results
                        ELSE [results EXCEPT ![i].res =
                                 record(results[i].res, r.result, FALSE)]
          /\ call' = [op |-> "record_result", i |-> i, raised |-> r.raised,
                      weights |-> r.weights]
    /\ UNCHANGED <<mean_tolerance, stddev_tolerance, models, src_results>>
    /\ UNCHANGED <<closest_vars, wait>>

\* record_broken(test_name, details, primary) (result.py:566-569)
RecordBroken(i, test_name, details, primary) ==
    /\ i \in 1..Len(results)
    /\ Len(results[i].res.records) < MaxRecords
    /\ results' = [results EXCEPT ![i].res =
                      record_broken(results[i].res, test_name, details,
                                    primary)]
    /\ call' = [op |-> "record_broken", i |-> i]
    /\ UNCHANGED <<mean_tolerance, stddev_tolerance, models, averages,
                   src_results>>
    /\ UNCHANGED <<closest_vars, wait>>

\* what expand_grouped_results does to the state
Expand(i) ==
    /\ i \in 1..Len(results)
    /\ \E st \in {expand_grouped_results(results[i].res, averages,
                                        mean_tolerance, stddev_tolerance,
                                        models)} :
          /\ Len(st.rr.grouped_records) <= MaxGrouped
          /\ results' = [results EXCEPT ![i].res = st.rr]
          /\ averages' = st.averages
          /\ call' = [op |-> "expand_grouped_results", i |-> i,
                      raised |-> st.raised,
                      before |-> Len(results[i].res.grouped_records)]
    /\ UNCHANGED <<mean_tolerance, stddev_tolerance, models, src_results>>
    /\ UNCHANGED <<closest_vars, wait>>

\* expand_grouped_results() (result.py:855-871)
ExpandGroupedResults(i) == Expand(i)

\* evaluate() (result.py:873-885): expand_grouped_results, then the
\* statistics, which only log
Evaluate(i) == Expand(i)

\* finish() (result.py:887-922)
Finish(i) ==
    /\ i \in 1..Len(results)
    /\ call' = [op |-> "finish", i |-> i, ret |-> finish(results[i].res)]
    /\ UNCHANGED container_vars
    /\ UNCHANGED <<closest_vars, wait>>

\* ------------------------------------------------------------------------
\* Specification of one RelativeResults driven through its methods
\* ------------------------------------------------------------------------
InitClosestIdle ==
    /\ stats = << <<>>, <<>> >>
    /\ selection = <<>>
    /\ pc = "idle"
    /\ ret = -1
    /\ baseline = <<>>
    /\ candidates = <<>>

InitRR ==
    /\ mean_tolerance = R(10)
    /\ stddev_tolerance = R(5)
    /\ \E c \in Configs :
          /\ models = c[1]
          /\ averages = [AveragesModel(c[2]) EXCEPT !.last = c[3]]
    /\ src_results = <<>>
    /\ results = << [name |-> "d1", res |-> RelativeResults] >>
    /\ call = [op |-> "init"]
    /\ wait = WaitIdle
    /\ InitClosestIdle

NextRR ==
    \/ \E in \in RecordInputs :
          RecordResult(1, in[1], in[2], in[3], in[4])
    \/ \E in \in BrokenInputs :
          RecordBroken(1, in[1], "broken", in[2])
    \/ ExpandGroupedResults(1)
    \/ Finish(1)

SpecRR == InitRR /\ [][NextRR]_vars

\* ------------------------------------------------------------------------
\* ResultsContainer (result.py:467-534).  src_results keeps the items of
\* the dictionary in insertion order: [test, score, primary], one per test.
\* ------------------------------------------------------------------------
Contains(seq, x) == \E k \in 1..Len(seq) : seq[k] = x

\* list.remove: drops the first occurrence
RECURSIVE Remove(_, _)
Remove(seq, x) ==
    IF seq = <<>> THEN <<>>
    ELSE IF Head(seq) = x THEN Tail(seq)
    ELSE <<Head(seq)>> \o Remove(Tail(seq), x)

\* list(self.src_results.keys()) (result.py:521)
src_keys(src) == [k \in 1..Len(src) |-> src[k].test]

\* self.src_results[test]
src_item(src, test) == src[CHOOSE k \in 1..Len(src) : src[k].test = test]

\* the first loop of add_result_by_path (result.py:522-529) over the
\* tuples the destination yields; st is [rr, averages, src_tests, raised]
RECURSIVE add_results(_, _, _, _, _, _)
add_results(st, mean_tol, stddev_tol, mdls, src, path) ==
    IF path = <<>> \/ st.raised THEN st
    ELSE add_results(
             With(Head(path), LAMBDA t :
             IF Contains(st.src_tests, t.test)
             THEN With(record_result(mean_tol, stddev_tol, mdls, st.averages,
                                     t.test, src_item(src, t.test).score,
                                     t.score, t.primary, FALSE, R(0), R(0)),
                       LAMBDA res :
                  IF res.raised
                  THEN [st EXCEPT !.averages = res.averages, !.raised = TRUE]
                  ELSE [st EXCEPT !.averages = res.averages,
                           !.rr = record(st.rr, res.result, FALSE),
                           !.src_tests = Remove(st.src_tests, t.test)])
             ELSE [st EXCEPT !.rr =
                      record_broken(st.rr, t.test,
                                    "Not present in source results",
                                    t.primary)]),
             mean_tol, stddev_tol, mdls, src, Tail(path))

\* add_missing leaving the primary flag to record_broken's default
RECURSIVE add_missing_default_primary(_, _, _)
add_missing_default_primary(rr, src, src_tests) ==
    IF src_tests = <<>> THEN rr
    ELSE add_missing_default_primary(
             record_broken(rr, Head(src_tests),
                           "Not present in target results", TRUE),
             src, Tail(src_tests))

\* the second loop of add_result_by_path (result.py:530-532)
RECURSIVE add_missing(_, _, _)
add_missing(rr, src, src_tests) ==
    IF src_tests = <<>> THEN rr
    ELSE add_missing(record_broken(rr, Head(src_tests),
                                   "Not present in target results",
                                   src_item(src, Head(src_tests)).primary),
                     src, Tail(src_tests))

\* self.results[name] = res on the ordered dictionary (result.py:533)
results_set(res_seq, name, res) ==
    IF \E k \in 1..Len(res_seq) : res_seq[k].name = name
    THEN [k \in 1..Len(res_seq) |->
             IF res_seq[k].name = name THEN [name |-> name, res |-> res]
             ELSE res_seq[k]]
    ELSE Append(res_seq, [name |-> name, res |-> res])

\* add_result_by_path(name, path, last) (result.py:512-534); path stands
\* for the tuples iter_results yields for the destination directory
AddResultByPath(name, path, last) ==
    /\ \E st \in {add_results([rr |-> RelativeResults,
                               averages |-> [averages EXCEPT !.last =
                                                IF last THEN TRUE ELSE @],
                               src_tests |-> src_keys(src_results),
                               raised |-> FALSE],
                              mean_tolerance, stddev_tolerance, models,
                              src_results, path)} :
          /\ averages' = st.averages
          /\ results' = IF st.raised THEN results
                        ELSE results_set(results, name,
                                         add_missing(st.rr, src_results,
                                                     st.src_tests))
          /\ call' = [op |-> "add_result_by_path", name |-> name,
                      path |-> path, last |-> last, raised |-> st.raised]
    /\ UNCHANGED <<mean_tolerance, stddev_tolerance, models, src_results>>
    /\ UNCHANGED <<closest_vars, wait>>

\* ------------------------------------------------------------------------
\* Specification of a ResultsContainer: destinations are added under the
\* names of DestNames in turn and each is evaluated at most once, at any
\* time after it was added
\* ------------------------------------------------------------------------
Item(test, score, primary) == [test |-> test, score |-> score,
                               primary |-> primary]

Baselines ==
    { << Item(NameA, N(100), TRUE), Item(NameE, Exc1, TRUE) >>,
      << Item(NameA, N(100), TRUE), Item(NameB, N(100), FALSE) >> }

DstTuples ==
    { Item(NameA, N(120), TRUE), Item(NameE, Exc2, TRUE),
      Item(NameC, N(100), FALSE) }

DestNames == <<"d1", "d2">>

RECURSIVE SeqsUpTo(_, _)
SeqsUpTo(S, n) ==
    IF n = 0 THEN { <<>> }
    ELSE LET shorter == SeqsUpTo(S, n - 1)
         IN shorter \cup { Append(q, x) : q \in shorter, x \in S }

DstPaths == SeqsUpTo(DstTuples, MaxDstLen)

Init ==
    /\ mean_tolerance = R(10)
    /\ stddev_tolerance = R(5)
    /\ models = <<>>
    /\ averages = AveragesModel(R(1))
    /\ src_results \in Baselines
    /\ results = <<>>
    /\ call = [op |-> "init"]
    /\ wait = WaitIdle
    /\ InitClosestIdle

Next ==
    \/ \E path \in DstPaths, last \in BOOLEAN :
          /\ Len(results) < Len(DestNames)
          /\ AddResultByPath(DestNames[Len(results) + 1], path, last)
    \/ \E i \in 1..Len(results) :
          /\ results[i].res.grouped_records = <<>>
          /\ Evaluate(i)

Spec == Init /\ [][Next]_vars

\* ------------------------------------------------------------------------
\* Specification of an AveragesModel called directly
\* ------------------------------------------------------------------------
AvgNames == {NameA, NameB}
AvgScores == {R(-20), R(4)}
AvgWeights == {R(1), R(3)}

\* AveragesModel.check_result(name, score) (result.py:447-464)
AveragesCheckResult(name, score) ==
    /\ averages_entry(averages, name)[2] < MaxCalls
    /\ \E av \in {averages_accumulate(averages, name, score)} :
          /\ averages' = av
          /\ call' = [op |-> "averages.check_result", name |-> name,
                      score |-> score, ret |-> averages_opinions(av, name)]
    /\ UNCHANGED <<mean_tolerance, stddev_tolerance, models, src_results,
                   results>>
    /\ UNCHANGED <<closest_vars, wait>>

\* self.averages.last = True, as add_result_by_path(last=True) sets it
\* (result.py:516-517)
SetLast ==
    /\ ~averages.last
    /\ averages' = [averages EXCEPT !.last = TRUE]
    /\ call' = [op |-> "averages.last"]
    /\ UNCHANGED <<mean_tolerance, stddev_tolerance, models, src_results,
                   results>>
    /\ UNCHANGED <<closest_vars, wait>>

InitAverages ==
    /\ mean_tolerance = R(10)
    /\ stddev_tolerance = R(5)
    /\ models = <<>>
    /\ \E w \in AvgWeights : averages = AveragesModel(w)
    /\ src_results = <<>>
    /\ results = <<>>
    /\ call = [op |-> "init"]
    /\ wait = WaitIdle
    /\ InitClosestIdle

NextAverages ==
    \/ \E name \in AvgNames, score \in AvgScores :
          AveragesCheckResult(name, score)
    \/ SetLast

SpecAverages == InitAverages /\ [][NextAverages]_vars

\* ------------------------------------------------------------------------
\* closest_result (result.py:925-1088): the selection over the totals
\* _calculate_stats returns.  Candidates are numbered from 0; storage[i + 1]
\* is the total of candidate i.
\* ------------------------------------------------------------------------
SeqMax(storage, sel) ==
    CHOOSE m \in {storage[sel[k] + 1] : k \in 1..Len(sel)} :
        \A k \in 1..Len(sel) : storage[sel[k] + 1] <= m

\* storage.count(score)
Count(storage, score) ==
    Cardinality({k \in 1..Len(storage) : storage[k] = score})

\* [i for i, value in enumerate(storage) if i in selection and value == score]
RECURSIVE matching(_, _, _, _)
matching(storage, sel, score, i) ==
    IF i >= Len(storage) THEN <<>>
    ELSE IF Contains(sel, i) /\ storage[i + 1] = score
    THEN <<i>> \o matching(storage, sel, score, i + 1)
    ELSE matching(storage, sel, score, i + 1)

\* process_score (result.py:949-962): an index (int) or a list of indices
process_score(storage, sel) ==
    LET score == SeqMax(storage, sel)
        count == Count(storage, score)
    IN IF count = 1
       THEN [int |-> TRUE,
             value |-> sel[CHOOSE k \in 1..Len(sel) :
                              /\ storage[sel[k] + 1] = score
                              /\ \A j \in 1..(k - 1) :
                                    storage[sel[j] + 1] # score],
             list |-> <<>>]
       ELSE [int |-> FALSE, value |-> -1,
             list |-> matching(storage, sel, score, 0)]

\* closest_select that keeps the whole selection for the next list
RECURSIVE closest_select_unnarrowed(_, _, _)
closest_select_unnarrowed(sts, sel, k) ==
    IF k > Len(sts) THEN [ret |-> sel[1], selection |-> sel]
    ELSE LET r == process_score(sts[k], sel)
         IN IF r.int THEN [ret |-> r.value, selection |-> sel]
            ELSE closest_select_unnarrowed(sts, sel, k + 1)

\* the final loop of closest_result (result.py:1082-1088) from the k-th
\* list of stats on: [ret, selection]
RECURSIVE closest_select(_, _, _)
closest_select(sts, sel, k) ==
    IF k > Len(sts) THEN [ret |-> sel[1], selection |-> sel]
    ELSE LET r == process_score(sts[k], sel)
         IN IF r.int THEN [ret |-> r.value, selection |-> sel]
            ELSE closest_select(sts, r.list, k + 1)

\* range(no_results)
range(n) == [k \in 1..n |-> k - 1]

\* closest_result from the computed stats to its return
ClosestResult ==
    /\ pc = "stats"
    /\ \E r \in {closest_select(stats, range(Len(stats[1])), 1)} :
          /\ ret' = r.ret
          /\ selection' = r.selection
    /\ pc' = "done"
    /\ UNCHANGED <<stats, baseline, candidates, wait>>
    /\ UNCHANGED <<container_vars, call>>

Totals == 0..MaxTotal

InitClosest ==
    /\ mean_tolerance = R(10)
    /\ stddev_tolerance = R(5)
    /\ models = <<>>
    /\ averages = AveragesModel(R(1))
    /\ src_results = <<>>
    /\ results = <<>>
    /\ call = [op |-> "init"]
    /\ wait = WaitIdle
    /\ \E n \in 1..NoResults :
          stats \in [1..2 -> [1..n -> Totals]]
    /\ selection = <<>>
    /\ pc = "stats"
    /\ ret = -1
    /\ baseline = <<>>
    /\ candidates = <<>>

NextClosest == ClosestResult

SpecClosest == InitClosest /\ [][NextClosest]_vars

\* ------------------------------------------------------------------------
\* closest_result (result.py:925-1088): from the results to the stats.
\* Floats are kept in fixed point, FixedOne standing for 1.0.
\* ------------------------------------------------------------------------
FixedOne == 32768

FMul(a, b) == (a * b) \div FixedOne

RECURSIVE FSquare(_, _)
FSquare(a, times) ==
    IF times = 0 THEN a ELSE FSquare(FMul(a, a), times - 1)

\* math.exp(-e) for a rational e >= 0: the series of exp(-e/32) raised to
\* the 32nd power
exp_neg(e) ==
    IF e[1] >= 12 * e[2] THEN 0
    ELSE With((e[1] * FixedOne) \div (e[2] * 32), LAMBDA y :
         FSquare(FixedOne - y + (FMul(y, y) \div 2)
                 - (FMul(FMul(y, y), y) \div 6)
                 + (FMul(FMul(y, y), FMul(y, y)) \div 24), 5))

\* norm_normpdf (result.py:933-947) for sd # 0: exp(...) / sqrt(2*pi*sd^2)
\* * sd * 2.51, where 2.51 / sqrt(2*pi) = 1.0013
norm_normpdf(x, mean, sd) ==
    (exp_neg(RDiv(RMul(RSub(x, mean), RSub(x, mean)),
                  RMul(R(2), RMul(sd, sd)))) * 10013) \div 10000

\* the name cut before the extra part of the iteration name as well
metric_name_without_extra(test) ==
    [test EXCEPT !.check_type = "", !.iteration_name_extra = ""]

\* test[:-7] and test.rsplit('.', 1)[0] (result.py:973-976, 1064-1070)
metric_name(test) == [test EXCEPT !.check_type = ""]

\* the two tuples _handle_iteration yields for a metric (result.py:392-403)
Yielded(test, mean, stddevpct, primary) ==
    << [test |-> test, score |-> Num(R(mean)), primary |-> primary],
       [test |-> [test EXCEPT !.check_type = "stddev"],
        score |-> Num(R(stddevpct)), primary |-> primary] >>

\* _process_src (result.py:1060-1076): src keeps the items of the
\* dictionary in insertion order, [name, score, primary, stddev]
src_has(src, name) == \E k \in 1..Len(src) : src[k].name = name

src_update(src, t) ==
    IF endswith_stddev(t.test)
    THEN IF ~src_has(src, metric_name(t.test))
         THEN Append(src, [name |-> metric_name(t.test), score |-> None,
                           primary |-> t.primary, stddev |-> t.score])
         ELSE [k \in 1..Len(src) |->
                  IF src[k].name = metric_name(t.test)
                  THEN [src[k] EXCEPT !.stddev = t.score]
                  ELSE src[k]]
    ELSE IF ~src_has(src, metric_name(t.test))
         THEN Append(src, [name |-> metric_name(t.test), score |-> t.score,
                           primary |-> t.primary, stddev |-> None])
         ELSE [k \in 1..Len(src) |->
                  IF src[k].name = metric_name(t.test)
                  THEN [src[k] EXCEPT !.score = t.score,
                                      !.primary = @ \/ t.primary]
                  ELSE src[k]]

RECURSIVE process_src(_, _)
process_src(src, tuples) ==
    IF tuples = <<>> THEN src
    ELSE process_src(src_update(src, Head(tuples)), Tail(tuples))

\* _process_results (result.py:964-978): storage maps a metric to the
\* <<score, stddev>> of every path; idx counts from 1
storage_default(storage, name, n) ==
    IF name \in DOMAIN storage THEN storage[name]
    ELSE [k \in 1..n |-> <<None, None>>]

storage_update(storage, n, idx, t) ==
    IF endswith_stddev(t.test)
    THEN IF t.score = Num(R(0)) THEN storage
         ELSE (metric_name(t.test) :>
                  [storage_default(storage, metric_name(t.test), n)
                      EXCEPT ![idx][2] = t.score]) @@ storage
    ELSE (metric_name(t.test) :>
             [storage_default(storage, metric_name(t.test), n)
                 EXCEPT ![idx][1] = t.score]) @@ storage

RECURSIVE process_path(_, _, _, _)
process_path(storage, n, idx, tuples) ==
    IF tuples = <<>> THEN storage
    ELSE process_path(storage_update(storage, n, idx, Head(tuples)), n, idx,
                      Tail(tuples))

RECURSIVE process_results(_, _, _)
process_results(storage, dst_paths, idx) ==
    IF idx > Len(dst_paths) THEN storage
    ELSE process_results(process_path(storage, Len(dst_paths), idx,
                                      dst_paths[idx]),
                         dst_paths, idx + 1)

\* _calculate_stats._distance (result.py:981-988); subtracting a text
\* raises the TypeError the code catches
distance(this_score, score) ==
    IF this_score = None THEN None
    ELSE IF this_score.kind = "num" /\ score.kind = "num"
    THEN Num(RAbs(RSub(this_score.num, score.num)))
    ELSE IF this_score = score THEN Num(R(0)) ELSE Num(R(1))

known_distances(distances) ==
    {distances[k].num : k \in {j \in 1..Len(distances) : distances[j] # None}}

RMin(S) == CHOOSE m \in S : \A x \in S : RLe(m, x)
RMax(S) == CHOOSE m \in S : \A x \in S : RLe(x, m)

\* bad_distance giving every missing result twice the maximum
bad_distance_twice_max(min_distance, max_distance) ==
    RMul(max_distance, R(2))

\* _bad_distance (result.py:1028-1033)
bad_distance(min_distance, max_distance) ==
    IF RIsZero(min_distance) THEN R(1)
    ELSE IF min_distance = max_distance THEN RMul(min_distance, R(2))
    ELSE RMul(max_distance, R(2))

\* fill_distances taking a missing result for an exact match
fill_distances_as_match(distances, bad) ==
    [k \in 1..Len(distances) |->
        IF distances[k] = None THEN R(0) ELSE distances[k].num]

\* the distances with the missing results replaced (result.py:1034-1035)
fill_distances(distances, bad) ==
    [k \in 1..Len(distances) |->
        IF distances[k] = None THEN bad ELSE distances[k].num]

\* math.exp(-1/2 * distance ** 2) / 2 of the normalized distances
\* (result.py:1041-1051); filled holds a non-zero distance
distance_norm_score(filled) ==
    With(RDiv(RMax({filled[k] : k \in 1..Len(filled)}), R(3)),
         LAMBDA one_third_of_max_distance :
    [k \in 1..Len(filled) |->
        With(RDiv(filled[k], one_third_of_max_distance), LAMBDA nd :
             exp_neg(RDiv(RMul(nd, nd), R(2))) \div 2)])

\* the distance-only branch (result.py:1023-1051) for the scores this of a
\* metric: [raised, skip, distances, norm_score], distances being the list
\* after the missing results were replaced
distance_mode(this, score) ==
    With([k \in 1..Len(this) |-> distance(this[k][1], score)],
         LAMBDA distances :
    IF known_distances(distances) = {}
    THEN [raised |-> TRUE, skip |-> FALSE, distances |-> <<>>,
          norm_score |-> <<>>]
    ELSE
    With(RMin(known_distances(distances)), LAMBDA min_distance :
    With(RMax(known_distances(distances)), LAMBDA max_distance :
    IF \E k \in 1..Len(distances) : distances[k] = None
    THEN With(fill_distances(distances,
                             bad_distance(min_distance, max_distance)),
              LAMBDA filled :
         IF \A k \in 1..Len(filled) : RIsZero(filled[k])
         THEN [raised |-> TRUE, skip |-> FALSE, distances |-> filled,
               norm_score |-> <<>>]
         ELSE [raised |-> FALSE, skip |-> FALSE, distances |-> filled,
               norm_score |-> distance_norm_score(filled)])
    ELSE IF min_distance = max_distance
    THEN [raised |-> FALSE, skip |-> TRUE, distances |-> <<>>,
          norm_score |-> <<>>]
    ELSE [raised |-> FALSE, skip |-> FALSE,
          distances |-> fill_distances(distances, R(0)),
          norm_score |->
              distance_norm_score(fill_distances(distances, R(0)))])))

\* stddevs (result.py:1015-1017)
RECURSIVE dst_stddevs(_)
dst_stddevs(this) ==
    IF this = <<>> THEN <<>>
    ELSE IF Head(this)[2] # None
    THEN <<Head(this)[2].num>> \o dst_stddevs(Tail(this))
    ELSE dst_stddevs(Tail(this))

truthy(value) == value # None /\ value # Num(R(0)) /\ value # Str("")

stddevs_of(this, stddev) ==
    IF truthy(stddev) THEN Append(dst_stddevs(this), stddev.num)
    ELSE dst_stddevs(this)

\* the stddev branch (result.py:1015-1021); float() of a text or of None
\* and a zero norm_stddev raise
stddev_mode(this, score, stddev) ==
    With(RMul(RMul(average(stddevs_of(this, stddev)),
                   get_uncertainty(Len(stddevs_of(this, stddev)))), R(2)),
         LAMBDA norm_stddev :
    IF \/ RIsZero(norm_stddev)
       \/ score.kind # "num"
       \/ \E k \in 1..Len(this) : this[k][1].kind = "str"
    THEN [raised |-> TRUE, skip |-> FALSE, distances |-> <<>>,
          norm_score |-> <<>>]
    ELSE [raised |-> FALSE, skip |-> FALSE, distances |-> <<>>,
          norm_score |->
              [k \in 1..Len(this) |->
                  IF this[k][1] = None THEN 0
                  ELSE norm_normpdf(this[k][1].num, score.num,
                                    norm_stddev)]])

uses_stddev(this, stddev) ==
    truthy(stddev) \/ \E k \in 1..Len(this) : this[k][2] # None

\* the body of the loop of _calculate_stats for a test of storage
\* (result.py:1004-1051)
metric_stats(this, entry) ==
    IF uses_stddev(this, entry.stddev)
    THEN stddev_mode(this, entry.score, entry.stddev)
    ELSE distance_mode(this, entry.score)

\* this_cathegory[idx] += result_score (result.py:1055-1056)
add_scores(sts, primary, norm_score) ==
    [sts EXCEPT ![IF primary THEN 1 ELSE 2] =
        [k \in 1..Len(@) |-> @[k] + norm_score[k]]]

\* _calculate_stats (result.py:980-1058) from the k-th item of src on; st is
\* [stats, raised, log], log keeping what metric_stats gave for each test
RECURSIVE calculate_stats(_, _, _, _)
calculate_stats(st, src, storage, k) ==
    IF k > Len(src) \/ st.raised THEN st
    ELSE IF src[k].name \notin DOMAIN storage
    THEN calculate_stats(st, src, storage, k + 1)
    ELSE calculate_stats(
             With(metric_stats(storage[src[k].name], src[k]), LAMBDA m :
                  [stats |-> IF m.raised \/ m.skip THEN st.stats
                             ELSE add_scores(st.stats, src[k].primary,
                                             m.norm_score),
                   raised |-> m.raised,
                   log |-> (src[k].name :> m) @@ st.log]),
             src, storage, k + 1)

\* closest_result up to the stats (result.py:1078-1081)
CalculateStats ==
    /\ pc = "src"
    /\ \E st \in {calculate_stats(
                     [stats |-> [c \in 1..2 |->
                                    [k \in 1..Len(candidates) |-> 0]],
                      raised |-> FALSE, log |-> <<>>],
                     process_src(<<>>, baseline),
                     process_results(<<>>, candidates, 1), 1)} :
          /\ stats' = st.stats
          /\ pc' = IF st.raised THEN "raised" ELSE "stats"
          /\ call' = [op |-> "calculate_stats", raised |-> st.raised,
                      log |-> st.log]
    /\ UNCHANGED <<selection, ret, baseline, candidates, wait>>
    /\ UNCHANGED container_vars

\* ------------------------------------------------------------------------
\* Specification of closest_result called with a baseline and 1..NoResults
\* candidates.  A scenario is a baseline and what each candidate may hold.
\* ------------------------------------------------------------------------
OptionsA ==
    { <<>>, Yielded(NameA, 100, 0, TRUE), Yielded(NameA, 102, 0, TRUE),
      Yielded(NameA, 96, 0, TRUE), Yielded(NameA, 102, 5, TRUE) }

OptionsB == { <<>>, Yielded(NameB, 9, 0, FALSE) }

OptionsE ==
    { <<>>, << [test |-> NameE, score |-> Exc1, primary |-> TRUE] >>,
      << [test |-> NameE, score |-> Exc2, primary |-> TRUE] >> }

Scenarios ==
    { [src |-> Yielded(NameA, 100, 0, TRUE),
       options |-> {a \o b : a \in OptionsA, b \in OptionsB}],
      [src |-> Yielded(NameA, 100, 5, TRUE) \o Yielded(NameB, 7, 0, FALSE),
       options |-> {a \o b : a \in OptionsA, b \in OptionsB}],
      [src |-> << [test |-> NameE, score |-> Exc1, primary |-> TRUE] >>
               \o Yielded(NameB, 7, 0, FALSE),
       options |-> {e \o b : e \in OptionsE, b \in OptionsB}] }

InitStats ==
    /\ mean_tolerance = R(10)
    /\ stddev_tolerance = R(5)
    /\ models = <<>>
    /\ averages = AveragesModel(R(1))
    /\ src_results = <<>>
    /\ results = <<>>
    /\ call = [op |-> "init"]
    /\ wait = WaitIdle
    /\ stats = << <<>>, <<>> >>
    /\ selection = <<>>
    /\ pc = "src"
    /\ ret = -1
    /\ \E scenario \in Scenarios, n \in 1..NoResults :
          /\ baseline = scenario.src
          /\ candidates \in [1..n -> scenario.options]

NextStats ==
    \/ CalculateStats
    \/ ClosestResult

SpecStats == InitStats /\ [][NextStats]_vars

\* closest_result called with candidates that hold a metric the baseline
\* lacks: NameB with or without a stddev, primary or not
DstOnlyOptions ==
    {a \o b : a \in { <<>>, Yielded(NameA, 100, 0, TRUE),
                      Yielded(NameA, 102, 5, TRUE) },
              b \in { <<>>, Yielded(NameB, 9, 0, FALSE),
                      Yielded(NameB, 11, 3, TRUE) }}

InitDstOnly ==
    /\ mean_tolerance = R(10)
    /\ stddev_tolerance = R(5)
    /\ models = <<>>
    /\ averages = AveragesModel(R(1))
    /\ src_results = <<>>
    /\ results = <<>>
    /\ call = [op |-> "init"]
    /\ wait = WaitIdle
    /\ stats = << <<>>, <<>> >>
    /\ selection = <<>>
    /\ pc = "src"
    /\ ret = -1
    /\ baseline \in {Yielded(NameA, 100, 0, TRUE),
                     Yielded(NameA, 100, 5, TRUE)}
    /\ \E n \in 1..NoResults : candidates \in [1..n -> DstOnlyOptions]

SpecDstOnly == InitDstOnly /\ [][NextStats]_vars

\* ------------------------------------------------------------------------
\* ModelLinearRegression and ModelStdev: construction and training
\* (result.py:99-254).  A model is [kind, class, mean_tolerance, metadata,
\* model]: model holds the entries of self.model but "__metadata__", which
\* metadata holds.
\* ------------------------------------------------------------------------
NoMetadata == [present |-> FALSE, version |-> 0, tolerance |-> R(0)]

Metadata(version, tolerance) ==
    [present |-> TRUE, version |-> version, tolerance |-> tolerance]

\* the upgrade of an entry that invents a raw value
upgrade_entry_raw_set(value) == [equation |-> value, raw |-> Num(R(1))]

\* the upgrade of an entry of the old format (result.py:119-120)
upgrade_entry(value) == [equation |-> value, raw |-> None]

\* ModelLinearRegression.__init__ (result.py:110-122); file is what
\* json.load gives, [exists, metadata, entries]
ModelLinearRegression(class, mean_tol, file) ==
    [kind |-> "linreg", class |-> class, mean_tolerance |-> mean_tol,
     metadata |-> IF file.exists THEN file.metadata ELSE NoMetadata,
     model |-> IF ~file.exists THEN <<>>
               ELSE IF ~file.metadata.present
               THEN [key \in DOMAIN file.entries |->
                        upgrade_entry(file.entries[key])]
               ELSE file.entries]

\* _identify answering a singular matrix with the flat equation
solve_or_flat(low, high, mean_tol) ==
    IF high = low THEN <<R(0), R(0)>>
    ELSE With(RDiv(RMul(R(2), mean_tol), RSub(high, low)), LAMBDA slope :
              <<slope, RSub(mean_tol, RMul(slope, high))>>)

\* ModelLinearRegression._identify (result.py:142-160): the equation
\* mapping high to +tolerance and low to -tolerance, <<>> (None) when the
\* matrix is singular
solve(low, high, mean_tol) ==
    IF high = low THEN <<>>
    ELSE With(RDiv(RMul(R(2), mean_tol), RSub(high, low)), LAMBDA slope :
              <<slope, RSub(mean_tol, RMul(slope, high))>>)

\* the samples that are numbers
RECURSIVE numeric_samples_only(_)
numeric_samples_only(samples) ==
    IF samples = <<>> THEN <<>>
    ELSE IF Head(samples).kind = "num"
    THEN <<Head(samples).num>> \o numeric_samples_only(Tail(samples))
    ELSE numeric_samples_only(Tail(samples))

\* [float(_) for _ in ...values()] (result.py:175-179): <<>> stands for the
\* ValueError of a sample that is no number
float_values(samples) ==
    IF \A k \in 1..Len(samples) : samples[k].kind = "num"
    THEN [k \in 1..Len(samples) |-> samples[k].num]
    ELSE <<>>

\* numpy.std of values whose variance is the square of a rational
ISqrt(n) == CHOOSE k \in 0..n : k * k = n
RSqrt(x) == <<ISqrt(x[1]), ISqrt(x[2])>>
std(values) ==
    With(average(values), LAMBDA mean :
    RSqrt(average([k \in 1..Len(values) |->
                      RMul(RSub(values[k], mean), RSub(values[k], mean))])))

SeqRange(values) == {values[k] : k \in 1..Len(values)}

\* the range always set to the band around the average
linreg_range_band(values, mean_tol) ==
    With(RDiv(RDiv(mean_tol, R(100)), <<11, 10>>),
         LAMBDA too_strict_coefficient :
    << RMul(average(values), RSub(R(1), too_strict_coefficient)),
       RMul(average(values), RAdd(R(1), too_strict_coefficient)) >>)

\* the <<min_value, max_value>> of ModelLinearRegression.identify
\* (result.py:172-192)
linreg_range(values, mean_tol) ==
    With(RDiv(RDiv(mean_tol, R(100)), <<11, 10>>),
         LAMBDA too_strict_coefficient :
    With(average(values), LAMBDA avg :
    With(RMul(avg, RAdd(R(1), too_strict_coefficient)), LAMBDA highest :
    With(RMul(avg, RSub(R(1), too_strict_coefficient)), LAMBDA lowest :
    << IF RLt(lowest, RMin(SeqRange(values))) THEN lowest
       ELSE RMin(SeqRange(values)),
       IF RGt(highest, RMax(SeqRange(values))) THEN highest
       ELSE RMax(SeqRange(values)) >>))))

\* the <<min_value, max_value>> of ModelStdev.identify (result.py:234-238)
stdev_range(values) ==
    With(RMul(RMul(R(3), std(values)), get_uncertainty(Len(values))),
         LAMBDA spread :
    << RSub(average(values), spread), RAdd(average(values), spread) >>)

fit_range(self, values) ==
    IF self.class = "ModelStdev" THEN stdev_range(values)
    ELSE linreg_range(values, self.mean_tolerance)

\* the equation identify fits for the samples of a test, <<>> when the test
\* is skipped (result.py:175-197, 229-243)
fit(self, samples) ==
    IF float_values(samples) = <<>> THEN <<>>
    ELSE With(fit_range(self, float_values(samples)), LAMBDA range_ :
              solve(range_[1], range_[2], self.mean_tolerance))

\* identify (result.py:162-208, 218-254); data maps a test to its samples,
\* each test with at least one sample
identify(self, data) ==
    [self EXCEPT
       !.metadata = Metadata(IF self.metadata.present
                             THEN self.metadata.version ELSE 1,
                             self.mean_tolerance),
       !.model =
          [test \in DOMAIN self.model
                    \cup {t \in DOMAIN data : fit(self, data[t]) # <<>>} |->
              IF test \in DOMAIN data /\ fit(self, data[test]) # <<>>
              THEN [equation |-> fit(self, data[test]),
                    raw |-> Num(average(float_values(data[test])))]
              ELSE self.model[test]]]

\* what json.load gives for a model file
NoFile == [exists |-> FALSE, metadata |-> NoMetadata, entries |-> <<>>]
LegacyFile ==
    [exists |-> TRUE, metadata |-> NoMetadata,
     entries |-> (NameA :> << <<11, 10>>, R(-110) >>)]
TrainedFile ==
    [exists |-> TRUE, metadata |-> Metadata(1, R(10)),
     entries |-> (NameA :> [equation |-> << <<11, 10>>, R(-110) >>,
                            raw |-> Num(R(100))])]
ModelFiles == {NoFile, LegacyFile, TrainedFile}
ModelClasses == {"ModelLinearRegression", "ModelStdev"}

\* the data identify is called with
DataSets ==
    { (NameA :> <<N(100)>>) @@ (NameB :> <<N(90), N(110)>>)
         @@ (NameE :> <<Exc1, Exc2>>),
      (NameA :> <<N(90), N(110)>>) @@ (NameB :> <<N(100), Str("err")>>),
      (NameA :> <<N(0), N(0)>>) @@ (NameB :> <<N(98), N(102)>>) }

\* <<test_name, src, dst, primary>> of the record_result calls
ModelRecordInputs ==
    { <<NameA, N(100), N(104), TRUE>>, <<NameB, N(100), N(120), TRUE>>,
      <<NameE, Exc1, Exc2, TRUE>>, <<NameE, Exc1, Exc1, TRUE>> }

\* models.append(ModelLinearRegression(...)) or ModelStdev(...)
Construct(class, file) ==
    /\ models = <<>>
    /\ results[1].res.records = <<>>
    /\ models' = << ModelLinearRegression(class, mean_tolerance, file) >>
    /\ call' = [op |-> "model.init", file |-> file]
    /\ UNCHANGED <<mean_tolerance, stddev_tolerance, averages, src_results,
                   results>>
    /\ UNCHANGED <<closest_vars, wait>>

\* models[1].identify(data)
Identify(data) ==
    /\ models # <<>>
    /\ results[1].res.records = <<>>
    /\ models' = [models EXCEPT ![1] = identify(models[1], data)]
    /\ call' = [op |-> "identify", data |-> data]
    /\ UNCHANGED <<mean_tolerance, stddev_tolerance, averages, src_results,
                   results>>
    /\ UNCHANGED <<closest_vars, wait>>

\* ------------------------------------------------------------------------
\* Specification of a model that is constructed, trained and then asked by
\* the record_result calls of one RelativeResults
\* ------------------------------------------------------------------------
InitModel ==
    /\ mean_tolerance = R(10)
    /\ stddev_tolerance = R(5)
    /\ models = <<>>
    /\ \E last \in BOOLEAN :
          averages = [AveragesModel(R(1)) EXCEPT !.last = last]
    /\ src_results = <<>>
    /\ results = << [name |-> "d1", res |-> RelativeResults] >>
    /\ call = [op |-> "init"]
    /\ wait = WaitIdle
    /\ InitClosestIdle

NextModel ==
    \/ \E class \in ModelClasses, file \in ModelFiles :
          Construct(class, file)
    \/ \E data \in DataSets : Identify(data)
    \/ \E in \in ModelRecordInputs :
          RecordResult(1, in[1], in[2], in[3], in[4])

SpecModel == InitModel /\ [][NextModel]_vars

\* ------------------------------------------------------------------------
\* RelativeResults.get_xunit (result.py:676-728): the testcases in document
\* order, each with the type of its child element ("" for none), and the
\* attributes of the testsuite
\* ------------------------------------------------------------------------
\* a gain reported as a failure
xunit_element_gain_fails(status) ==
    IF status < PASS
    THEN IF status \in {FAIL, FAIL_LOSS, FAIL_GAIN} THEN "failure"
         ELSE "error"
    ELSE ""

\* the element type chosen for a status (result.py:706-716)
xunit_element(status) ==
    IF status < PASS
    THEN IF status = FAIL_GAIN THEN "skipped"
         ELSE IF status \in {FAIL, FAIL_LOSS} THEN "failure"
         ELSE "error"
    ELSE ""

\* one pass of the loop body (result.py:697-720)
xunit_add(doc, test) ==
    IF ~test.primary THEN doc
    ELSE With(xunit_element(test.status), LAMBDA element_type :
        [testcases |-> Append(doc.testcases,
                              [name |-> test.name, element |-> element_type]),
         skipped |-> doc.skipped + IF element_type = "skipped" THEN 1 ELSE 0,
         failures |-> doc.failures
                         + IF element_type = "failure" THEN 1 ELSE 0,
         errors |-> doc.errors + IF element_type = "error" THEN 1 ELSE 0])

RECURSIVE xunit_loop(_, _, _)
xunit_loop(doc, tests, k) ==
    IF k > Len(tests) THEN doc
    ELSE xunit_loop(xunit_add(doc, tests[k]), tests, k + 1)

get_xunit(self) ==
    With(xunit_loop([testcases |-> <<>>, skipped |-> 0, failures |-> 0,
                     errors |-> 0],
                    self.records \o self.grouped_records, 1),
         LAMBDA doc :
            [testcases |-> doc.testcases, tests |-> Len(self.records),
             errors |-> doc.errors, failures |-> doc.failures,
             skipped |-> doc.skipped])

GetXunit(i) ==
    /\ i \in 1..Len(results)
    /\ call' = [op |-> "get_xunit", i |-> i,
                ret |-> get_xunit(results[i].res)]
    /\ UNCHANGED container_vars
    /\ UNCHANGED <<closest_vars, wait>>

\* <<test_name, primary>> of the record_broken calls
XunitBrokenInputs == { <<NameA, TRUE>>, <<NameB, FALSE>> }

InitXunit == InitRR

NextXunit ==
    \/ \E in \in RecordInputs :
          RecordResult(1, in[1], in[2], in[3], in[4])
    \/ \E in \in XunitBrokenInputs :
          RecordBroken(1, in[1], "broken", in[2])
    \/ ExpandGroupedResults(1)
    \/ GetXunit(1)

SpecXunit == InitXunit /\ [][NextXunit]_vars

\* ------------------------------------------------------------------------
\* The statistics of a RelativeResults (result.py:729-836); both only log
\* what they compute
\* ------------------------------------------------------------------------
\* the lists per_type_stats fills (result.py:734-747), each entry of a
\* list of the dictionary as <<result_id, score>> in the order of appending
per_type_entry(rec, merge) ==
    <<[get_merged_name(rec.name, merge) EXCEPT !.check_type = ""],
      rec.score>>

RECURSIVE per_type_fill(_, _, _, _, _)
per_type_fill(out, recs, k, merge, primary_only) ==
    IF k > Len(recs) THEN out
    ELSE per_type_fill(
             IF primary_only /\ ~recs[k].primary THEN out
             ELSE IF get_merged_name(recs[k].name, merge).check_type = "mean"
             THEN [out EXCEPT !.all_means =
                      Append(@, per_type_entry(recs[k], merge))]
             ELSE IF get_merged_name(recs[k].name, merge).check_type = "stddev"
             THEN [out EXCEPT !.all_stddevs =
                      Append(@, per_type_entry(recs[k], merge))]
             ELSE [out EXCEPT !.all_means =
                      Append(@, per_type_entry(recs[k], merge)),
                              !.all_stddevs =
                      Append(@, per_type_entry(recs[k], merge))],
             recs, k + 1, merge, primary_only)

per_type_stats(self, merge, primary_only) ==
    per_type_fill([all_means |-> <<>>, all_stddevs |-> <<>>], self.records,
                  1, merge, primary_only)

\* the list sum_stats appends a record's score to (result.py:812-824)
sum_stats_class(status) ==
    IF status = PASS THEN "equals"
    ELSE IF status = MINOR_GAIN THEN "m_gains"
    ELSE IF status = MINOR_LOSS THEN "m_losses"
    ELSE IF status = FAIL_GAIN THEN "gains"
    ELSE IF status = FAIL_LOSS THEN "losses"
    ELSE "errors"

RECURSIVE sum_stats_fill(_, _, _, _)
sum_stats_fill(out, recs, k, primary_only) ==
    IF k > Len(recs) THEN out
    ELSE sum_stats_fill(
             IF primary_only /\ ~recs[k].primary THEN out
             ELSE IF sum_stats_class(recs[k].status) = "errors"
             THEN [out EXCEPT !.errors = @ + 1]
             ELSE [out EXCEPT ![sum_stats_class(recs[k].status)] =
                      Append(@, recs[k].score)],
             recs, k + 1, primary_only)

\* sum_stats (result.py:791-836): the lists behind the lines of its table
sum_stats(self, primary_only) ==
    sum_stats_fill([gains |-> <<>>, m_gains |-> <<>>, losses |-> <<>>,
                    m_losses |-> <<>>, equals |-> <<>>, errors |-> 0],
                   self.records, 1, primary_only)

\* the merges evaluate asks per_type_stats for (result.py:878-883)
StatsMerges ==
    { {"iteration_name_extra"},
      {"serial", "iteration_name", "iteration_name_extra", "workflow"},
      MergeAllButProfile }

PerTypeStats(i, merge) ==
    /\ i \in 1..Len(results)
    /\ call' = [op |-> "per_type_stats", i |-> i,
                ret |-> per_type_stats(results[i].res, merge, TRUE)]
    /\ UNCHANGED container_vars
    /\ UNCHANGED <<closest_vars, wait>>

SumStats(i) ==
    /\ i \in 1..Len(results)
    /\ call' = [op |-> "sum_stats", i |-> i,
                ret |-> sum_stats(results[i].res, TRUE)]
    /\ UNCHANGED container_vars
    /\ UNCHANGED <<closest_vars, wait>>

\* <<test_name, src, dst, primary>> of the record_result calls
LifecycleInputs ==
    { <<NameA, N(100), N(100), TRUE>>, <<NameA, N(100), N(104), TRUE>>,
      <<NameA, N(100), N(120), TRUE>>, <<NameS, N(10), N(20), TRUE>>,
      <<NameE, Exc1, Exc2, FALSE>> }

InitLifecycle == InitRR

NextLifecycle ==
    \/ \E in \in LifecycleInputs :
          RecordResult(1, in[1], in[2], in[3], in[4])
    \/ \E in \in BrokenInputs :
          RecordBroken(1, in[1], "broken", in[2])
    \/ ExpandGroupedResults(1)
    \/ \E merge \in StatsMerges : PerTypeStats(1, merge)
    \/ SumStats(1)
    \/ GetXunit(1)
    \/ Finish(1)

SpecLifecycle == InitLifecycle /\ [][NextLifecycle]_vars

\* ------------------------------------------------------------------------
\* get_uncertainty and utils.list_of_threads called with integers
\* ------------------------------------------------------------------------
\* get_uncertainty(no_samples) (result.py:58-65)
GetUncertainty(no_samples) ==
    /\ call' = [op |-> "get_uncertainty", arg |-> no_samples,
                raised |-> get_uncertainty_raises(no_samples),
                ret |-> IF get_uncertainty_raises(no_samples) THEN R(0)
                        ELSE get_uncertainty(no_samples),
                text |-> ""]
    /\ UNCHANGED <<container_vars, closest_vars, wait>>

\* range(start, stop, step) for step > 0
range3(start, stop, step) ==
    [k \in 1..((stop - start + step - 1) \div step) |->
        start + (k - 1) * step]

\* ",".join(str(_) for _ in values)
RECURSIVE join(_)
join(values) ==
    IF values = <<>> THEN ""
    ELSE IF Len(values) = 1 THEN ToString(values[1])
    ELSE ToString(values[1]) \o "," \o join(Tail(values))

\* the ValueError of utils/__init__.py:135-136
list_of_threads_raises(cpus) == cpus < 1

\* the list without the closing number of cpus
list_of_threads_multiples(cpus) ==
    With(cpus \div 4, LAMBDA step :
        IF step <= 1 THEN join(range3(1, cpus + 1, 1))
        ELSE "1," \o join(range3(step, cpus + 1, step)))

\* list_of_threads(cpus) (utils/__init__.py:133-144) for cpus >= 1
list_of_threads(cpus) ==
    With(cpus \div 4, LAMBDA step :
        IF step <= 1 THEN join(range3(1, cpus + 1, 1))
        ELSE "1," \o join(range3(step, cpus + 1, step))
                 \o (IF cpus % step # 0 THEN "," \o ToString(cpus) ELSE ""))

ListOfThreads(cpus) ==
    /\ call' = [op |-> "list_of_threads", arg |-> cpus,
                raised |-> list_of_threads_raises(cpus),
                ret |-> R(0),
                text |-> IF list_of_threads_raises(cpus) THEN ""
                         ELSE list_of_threads(cpus)]
    /\ UNCHANGED <<container_vars, closest_vars, wait>>

InitUtils ==
    /\ mean_tolerance = R(10)
    /\ stddev_tolerance = R(5)
    /\ models = <<>>
    /\ averages = AveragesModel(R(1))
    /\ src_results = <<>>
    /\ results = <<>>
    /\ call = [op |-> "init"]
    /\ wait = WaitIdle
    /\ InitClosestIdle

NextUtils ==
    \/ \E no_samples \in -3..MaxSamples : GetUncertainty(no_samples)
    \/ \E cpus \in -2..MaxCpus : ListOfThreads(cpus)

SpecUtils == InitUtils /\ [][NextUtils]_vars

\* ------------------------------------------------------------------------
\* utils.wait_for (utils/__init__.py:186-213).  wait.now is time.time(),
\* which never decreases; func returns 0 (falsy) or 1, 2 (truthy); ret is
\* <<>> for None and <<v>> for the value v
\* ------------------------------------------------------------------------
\* the loop test reads the deadline as passed
before_or_at_deadline(now, end_time) == now <= end_time

\* while time.time() < end_time (utils/__init__.py:205)
before_deadline(now, end_time) == now < end_time

\* the clock advances while the program runs or sleeps
Tick ==
    /\ wait.now < MaxTime
    /\ wait' = [wait EXCEPT !.now = @ + 1]
    /\ UNCHANGED <<container_vars, closest_vars, call>>

\* the call and end_time = time.time() + timeout (line 203)
WaitFor(timeout, step) ==
    /\ wait.pc \in {"idle", "done"}
    /\ wait' = [pc |-> "loop", now |-> wait.now,
                end_time |-> wait.now + timeout, read |-> wait.now,
                outputs |-> <<>>, ret |-> <<>>, start |-> wait.now,
                timeout |-> timeout, step |-> step]
    /\ call' = [op |-> "wait_for"]
    /\ UNCHANGED <<container_vars, closest_vars>>

\* the loop test (line 205) and return None (line 212)
WaitForTest ==
    /\ wait.pc = "loop"
    /\ wait' = [wait EXCEPT
                   !.read = wait.now,
                   !.pc = IF before_deadline(wait.now, wait.end_time)
                          THEN "call" ELSE "done",
                   !.ret = <<>>]
    /\ UNCHANGED <<container_vars, closest_vars, call>>

\* output = func(...); return output if it is truthy (lines 206-208)
WaitForCall(output) ==
    /\ wait.pc = "call"
    /\ Len(wait.outputs) < MaxAttempts
    /\ wait' = [wait EXCEPT
                   !.outputs = Append(@, [at |-> wait.read,
                                          value |-> output]),
                   !.pc = IF output # 0 THEN "done" ELSE "sleep",
                   !.ret = IF output # 0 THEN <<output>> ELSE <<>>]
    /\ UNCHANGED <<container_vars, closest_vars, call>>

\* time.sleep(step) (line 210)
WaitForSleep ==
    /\ wait.pc = "sleep"
    /\ wait.now + wait.step <= MaxTime
    /\ wait' = [wait EXCEPT !.now = @ + wait.step, !.pc = "loop"]
    /\ UNCHANGED <<container_vars, closest_vars, call>>

InitWaitFor ==
    /\ mean_tolerance = R(10)
    /\ stddev_tolerance = R(5)
    /\ models = <<>>
    /\ averages = AveragesModel(R(1))
    /\ src_results = <<>>
    /\ results = <<>>
    /\ call = [op |-> "init"]
    /\ wait = WaitIdle
    /\ InitClosestIdle

NextWaitFor ==
    \/ Tick
    \/ \E timeout \in -1..MaxTimeout, step \in {0, 1} : WaitFor(timeout, step)
    \/ WaitForTest
    \/ \E output \in {0, 1, 2} : WaitForCall(output)
    \/ WaitForSleep

SpecWaitFor == InitWaitFor /\ [][NextWaitFor]_vars

\* ------------------------------------------------------------------------
\* Properties
\* ------------------------------------------------------------------------
SeqSet(seq) == {seq[k] : k \in 1..Len(seq)}

\* every Result stored in some RelativeResults
AllResults ==
    UNION {SeqSet(results[i].res.records)
           \cup SeqSet(results[i].res.grouped_records) : i \in 1..Len(results)}

\* the Results that record_result built
ReportResults == {r \in AllResults : r.details.text = "report"}

\* the raw difference was the only opinion of the Result
OnlyRaw(r) ==
    \E section \in {"good", "big", "small"} :
        r.details.out = << <<section, << <<"raw", -1>> >> >> >>

\* a mean metric compared with tolerance 10 to the baseline 100, raw only
Scenario(r, dst) ==
    /\ endswith_mean(r.name)
    /\ r.src = N(100)
    /\ r.dst = N(dst)
    /\ r.details.tolerance = R(10)
    /\ OnlyRaw(r)

\* C1: the status of every Result record_result builds is non-negative
\* (PASS, MINOR_GAIN or MINOR_LOSS) exactly when |score| <= tolerance;
\* beyond the tolerance it is FAIL_GAIN for a positive score and FAIL_LOSS
\* otherwise; a raw-only mean metric with baseline 100 and tolerance 10 is
\* FAIL_GAIN for destination 120 and FAIL_LOSS for destination 80
C1_StatusByTolerance ==
    \A r \in ReportResults :
        LET score == r.score
            tol == r.details.tolerance
        IN /\ (r.status >= 0) <=> RLe(RAbs(score), tol)
           /\ r.status >= 0 => r.status \in {PASS, MINOR_GAIN, MINOR_LOSS}
           /\ RGt(RAbs(score), tol) /\ RGt(score, R(0))
                 => r.status = FAIL_GAIN
           /\ RGt(RAbs(score), tol) /\ RLe(score, R(0))
                 => r.status = FAIL_LOSS
           /\ Scenario(r, 120) => r.status = FAIL_GAIN
           /\ Scenario(r, 80) => r.status = FAIL_LOSS

C1_Witness ==
    /\ \E r \in ReportResults : Scenario(r, 120) /\ r.status = FAIL_GAIN
    /\ \E r \in ReportResults : Scenario(r, 80) /\ r.status = FAIL_LOSS

\* C2: a raw-only mean metric whose score s has 0 <= s <= tolerance/2 is
\* PASS (baseline 100, tolerance 10, destination 104), and one with
\* tolerance/2 < s <= tolerance is MINOR_GAIN (destination 106)
C2_HalfTolerance ==
    \A r \in ReportResults :
        LET score == r.score
            half == RDiv(r.details.tolerance, R(2))
        IN endswith_mean(r.name) /\ OnlyRaw(r) =>
              /\ RLe(R(0), score) /\ RLe(score, half) => r.status = PASS
              /\ RGt(score, half) /\ RLe(score, r.details.tolerance)
                    => r.status = MINOR_GAIN

\* the RelativeResults stored under a destination name
ResOf(name) ==
    results[CHOOSE i \in 1..Len(results) : results[i].name = name].res

BaselineTests == {src_results[k].test : k \in 1..Len(src_results)}

\* C3: after add_result_by_path, every baseline metric the destination did
\* not yield has exactly one Result in the destination's records, with
\* status ERROR, score -100 and the baseline's primary flag; no exception
\* was raised and every tuple of the destination has its Result
C3_MissingIsBroken ==
    call.op = "add_result_by_path" =>
        /\ ~call.raised
        /\ \E i \in 1..Len(results) : results[i].name = call.name
        /\ LET recs == ResOf(call.name).records
               yielded == {call.path[k].test : k \in 1..Len(call.path)}
               missing == {k \in 1..Len(src_results) :
                              src_results[k].test \notin yielded}
           IN /\ \A m \in missing :
                    /\ Cardinality({k \in 1..Len(recs) :
                          recs[k].name = src_results[m].test}) = 1
                    /\ \A k \in 1..Len(recs) :
                          recs[k].name = src_results[m].test =>
                             /\ recs[k].status = ERROR
                             /\ recs[k].score = R(-100)
                             /\ recs[k].primary = src_results[m].primary
              /\ Len(recs) = Len(call.path) + Cardinality(missing)
              /\ \A k \in 1..Len(call.path) :
                    /\ recs[k].name = call.path[k].test
                    /\ recs[k].primary = call.path[k].primary

C3_Witness ==
    /\ call.op = "add_result_by_path"
    /\ call.path # <<>>
    /\ \E k \in 1..Len(src_results) :
          /\ ~src_results[k].primary
          /\ \A j \in 1..Len(call.path) :
                call.path[j].test # src_results[k].test
    /\ \E r \in SeqSet(ResOf(call.name).records) : r.details.text = "report"

\* C4: after add_result_by_path, the k-th Result of the destination belongs
\* to the k-th tuple the destination yielded: a comparison against the
\* baseline value when the tuple's test_name is a key of the baseline
\* (also when that name was yielded before), a broken Result (ERROR, -100,
\* "Not present in source results") when it is not
C4_EveryTupleCompared ==
    call.op = "add_result_by_path" /\ ~call.raised =>
        LET recs == ResOf(call.name).records
        IN \A k \in 1..Len(call.path) :
              LET t == call.path[k]
              IN IF t.test \in BaselineTests
                 THEN /\ recs[k].details.text = "report"
                      /\ recs[k].name = t.test
                      /\ recs[k].src = src_item(src_results, t.test).score
                      /\ recs[k].dst = t.score
                 ELSE /\ recs[k].status = ERROR
                      /\ recs[k].score = R(-100)
                      /\ recs[k].details.text = "Not present in source results"

\* the exit code finish is to return for a RelativeResults
ExpectedExit(rr) ==
    IF \/ \E k \in 1..Len(rr.records) :
             rr.records[k].primary /\ rr.records[k].status \in
                {FAIL_LOSS, ERROR, FAIL_GAIN}
       \/ \E k \in 1..Len(rr.grouped_records) :
             rr.grouped_records[k].status \in {FAIL_LOSS, ERROR, FAIL_GAIN}
    THEN 2
    ELSE IF Len(rr.records) = 0 THEN 3
    ELSE 0

\* C5: finish returns 2 iff a primary Result of records or any Result of
\* grouped_records has a negative status, otherwise 3 if records is empty,
\* otherwise 0; it changes neither records nor grouped_records
C5_FinishExitCode ==
    [][call'.op = "finish" =>
          /\ call'.ret = ExpectedExit(results[call'.i].res)
          /\ results' = results
          /\ averages' = averages]_vars

C5_Witness ==
    /\ call.op = "finish"
    /\ call.ret = 0
    /\ \E r \in SeqSet(results[call.i].res.records) :
          ~r.primary /\ r.status < 0
    /\ results[call.i].res.grouped_records # <<>>

\* C6: with non-negative weights of the models' opinions and of the
\* averages, the sum of weights is positive at both divisions of
\* record_result, no call raises and every stored score is a defined number
C6_WeightsPositive ==
    /\ call.op = "record_result" =>
          /\ ~call.raised
          /\ Len(call.weights) = 2
          /\ RGt(call.weights[1], R(0))
          /\ RGt(call.weights[2], R(0))
    /\ call.op = "expand_grouped_results" => ~call.raised
    /\ \A r \in AllResults : r.score[2] > 0

C6_Witness ==
    /\ call.op = "record_result"
    /\ averages.last
    /\ averages.weight = R(0)
    /\ models # <<>>
    /\ call.weights = <<R(1), R(1)>>
    /\ \E r \in ReportResults : ~OnlyRaw(r) /\ r.name = NameB

\* C7: every AveragesModel.check_result(name, score) adds score to the sum
\* and 1 to the count of name and touches no other entry; it returns no
\* opinion while last is unset and otherwise exactly ("avg", sum/count*2, w)
\* with w = weight/uncertainty(count) for count < 8 and w = weight from 8 on
C7_AveragesOpinion ==
    [][call'.op = "averages.check_result" =>
          LET name == call'.name
              old == IF name \in DOMAIN averages.averages
                     THEN averages.averages[name] ELSE <<R(0), 0>>
              new == averages'.averages[name]
          IN /\ name \in DOMAIN averages'.averages
             /\ new[1] = RAdd(old[1], call'.score)
             /\ new[2] = old[2] + 1
             /\ DOMAIN averages'.averages = DOMAIN averages.averages \cup {name}
             /\ \A other \in DOMAIN averages.averages \ {name} :
                   averages'.averages[other] = averages.averages[other]
             /\ averages'.last = averages.last
             /\ ~averages.last => call'.ret = <<>>
             /\ averages.last =>
                   /\ Len(call'.ret) = 1
                   /\ call'.ret[1].name = "avg"
                   /\ call'.ret[1].difference =
                         RMul(RDiv(new[1], R(new[2])), R(2))
                   /\ call'.ret[1].weight =
                         IF new[2] < 8
                         THEN RDiv(averages.weight, get_uncertainty(new[2]))
                         ELSE averages.weight]_vars

C7_Witness ==
    /\ call.op = "averages.check_result"
    /\ averages.last
    /\ averages.averages[call.name][2] = 8
    /\ call.ret # <<>>
    /\ call.ret[1].weight = averages.weight

\* the records expand_grouped_results groups, by their positions
Eligible(rr) ==
    {k \in 1..Len(rr.records) :
        /\ rr.records[k].primary
        /\ rr.records[k].status # ERROR
        /\ rr.records[k].name.check_type # "stddev"}

GroupNamesOf(rr, p) ==
    {get_merged_name(rr.records[k].name, Merges[p]) : k \in Eligible(rr)}

GroupSize(rr, p, name) ==
    Cardinality({k \in Eligible(rr) :
                    get_merged_name(rr.records[k].name, Merges[p]) = name})

\* the pass the j-th Result appended by the last expansion came from
PassOf(rr, j) ==
    LET n1 == Cardinality(GroupNamesOf(rr, 1))
        n2 == Cardinality(GroupNamesOf(rr, 2))
    IN IF j <= n1 THEN 1 ELSE IF j <= n1 + n2 THEN 2 ELSE 3

\* C8: every Result expand_grouped_results appends was classified with the
\* tolerance mean_tolerance * uncertainty(group_size) / 2, group_size being
\* the number of records merged into its group
C8_GroupTolerance ==
    call.op = "expand_grouped_results" /\ ~call.raised =>
        LET rr == results[call.i].res
            new == Len(rr.grouped_records) - call.before
        IN /\ new = Cardinality(GroupNamesOf(rr, 1))
                    + Cardinality(GroupNamesOf(rr, 2))
                    + Cardinality(GroupNamesOf(rr, 3))
           /\ \A j \in 1..new :
                 LET g == rr.grouped_records[call.before + j]
                     size == GroupSize(rr, PassOf(rr, j), g.name)
                     tol == RDiv(RMul(mean_tolerance, get_uncertainty(size)),
                                 R(2))
                 IN /\ size >= 1
                    /\ g.details.tolerance = tol
                    /\ (g.status >= 0) <=> RLe(RAbs(g.score), tol)

C8_Witness ==
    /\ call.op = "expand_grouped_results"
    /\ LET rr == results[call.i].res
       IN /\ Len(rr.grouped_records) > call.before
          /\ \E j \in 1..(Len(rr.grouped_records) - call.before) :
                LET g == rr.grouped_records[call.before + j]
                IN /\ GroupSize(rr, PassOf(rr, j), g.name) = 2
                   /\ g.details.tolerance = <<23, 2>>

\* a name get_merged_name produced for a group
IsGroupName(name) == name.iteration_name_extra = "*"

IsPrefix(a, b) == Len(a) <= Len(b) /\ \A k \in 1..Len(a) : a[k] = b[k]

\* C9: the Results of groups are all in grouped_records and never in
\* records; expand_grouped_results and evaluate leave records as they are
\* and only append to grouped_records, which no other call changes
C9_GroupedApart ==
    /\ [](\A i \in 1..Len(results) :
             /\ \A r \in SeqSet(results[i].res.records) :
                   ~IsGroupName(r.name)
             /\ \A r \in SeqSet(results[i].res.grouped_records) :
                   IsGroupName(r.name) /\ r.primary)
    /\ [][\A i \in 1..Len(results) :
             /\ call'.op = "expand_grouped_results" =>
                   /\ Len(results') = Len(results)
                   /\ results'[i].res.records = results[i].res.records
                   /\ IsPrefix(results[i].res.grouped_records,
                               results'[i].res.grouped_records)
             /\ call'.op \in {"record_result", "record_broken", "finish"} =>
                   /\ Len(results') = Len(results)
                   /\ results'[i].res.grouped_records =
                         results[i].res.grouped_records]_vars

C9_Witness ==
    /\ call.op = "expand_grouped_results"
    /\ Len(results[call.i].res.grouped_records) > call.before
    /\ call.before > 0
    /\ Len(results[call.i].res.records) = MaxRecords

\* C10: closest_result returns the lowest index among the candidates with
\* the greatest secondary total among those with the greatest primary total
PrimaryBest ==
    {i \in 0..(Len(stats[1]) - 1) :
        \A j \in 0..(Len(stats[1]) - 1) : stats[1][j + 1] <= stats[1][i + 1]}

SecondaryBest ==
    {i \in PrimaryBest :
        \A j \in PrimaryBest : stats[2][j + 1] <= stats[2][i + 1]}

C10_ProgressiveSelection ==
    pc = "done" =>
        /\ ret \in SecondaryBest
        /\ \A i \in SecondaryBest : ret <= i

C10_Witness ==
    /\ pc = "done"
    /\ Cardinality(PrimaryBest) = 2
    /\ Cardinality(SecondaryBest) = 1
    /\ ret # 0
    /\ \E j \in 0..(Len(stats[2]) - 1) :
          j \notin PrimaryBest /\ stats[2][j + 1] > stats[2][ret + 1]

\* what _process_results and _process_src make of the state's inputs
Storage == process_results(<<>>, candidates, 1)
Src == process_src(<<>>, baseline)

\* C11: with a baseline and 1..NoResults candidates, closest_result raises
\* nothing and returns an index i with 0 <= i < len(candidates)
C11_IndexInRange ==
    /\ pc # "raised"
    /\ pc = "done" /\ candidates # <<>> =>
          /\ ret \in 0..(Len(candidates) - 1)
          /\ call.op = "calculate_stats"
          /\ ~call.raised

C11_Witness ==
    /\ pc = "done"
    /\ Len(candidates) = NoResults
    /\ ret = NoResults - 1
    /\ candidates[1] = <<>>
    /\ \E name \in DOMAIN call.log : call.log[name].distances # <<>>
    /\ \E name \in DOMAIN call.log : call.log[name].distances = <<>>

\* the candidates (from 1) that hold a score of the metric
Holding(name) ==
    IF name \in DOMAIN Storage
    THEN {k \in 1..Len(candidates) : Storage[name][k][1] # None}
    ELSE {}

\* |score of candidate k - baseline score| of a numeric metric
AbsDistance(name, k) ==
    RAbs(RSub(Storage[name][k][1].num,
              Src[CHOOSE j \in 1..Len(Src) : Src[j].name = name].score.num))

\* C12: in distance-only mode every candidate missing a numeric metric gets
\* the distance 2 * (maximum distance of the candidates holding it), and 1
\* only when every candidate holding it is at distance 0
C12_MissingPenalty ==
    call.op = "calculate_stats" =>
        \A name \in DOMAIN call.log :
            call.log[name].distances # <<>> /\ name.iteration_name # "ERROR" =>
                \A k \in 1..Len(candidates) :
                    k \notin Holding(name) =>
                        call.log[name].distances[k] =
                            IF \A h \in Holding(name) :
                                  RIsZero(AbsDistance(name, h))
                            THEN R(1)
                            ELSE RMul(R(2),
                                      RMax({AbsDistance(name, h) :
                                               h \in Holding(name)}))

\* the baseline holds the single primary metric A and no stddev, no
\* candidate holds a stddev, some candidate holds A and some does not
SingleMetricScenario ==
    /\ baseline = Yielded(NameA, 100, 0, TRUE)
    /\ \A name \in DOMAIN Storage :
          \A k \in 1..Len(candidates) : Storage[name][k][2] = None
    /\ Holding(metric_name(NameA)) # {}
    /\ Holding(metric_name(NameA)) # 1..Len(candidates)

\* C13: in that scenario closest_result raises nothing and returns the
\* lowest index among the candidates that hold the metric at the least
\* absolute distance from the baseline value
C13_FavoursCloserPresent ==
    SingleMetricScenario =>
        /\ pc # "raised"
        /\ pc = "done" =>
              /\ ret + 1 \in Holding(metric_name(NameA))
              /\ \A h \in Holding(metric_name(NameA)) :
                    /\ RLe(AbsDistance(metric_name(NameA), ret + 1),
                           AbsDistance(metric_name(NameA), h))
                    /\ AbsDistance(metric_name(NameA), h) =
                       AbsDistance(metric_name(NameA), ret + 1)
                          => ret + 1 <= h

C13_Witness ==
    /\ SingleMetricScenario
    /\ pc = "done"
    /\ 1 \notin Holding(metric_name(NameA))
    /\ ret + 1 = Len(candidates)
    /\ \E h \in Holding(metric_name(NameA)) :
          AbsDistance(metric_name(NameA), h)
             # AbsDistance(metric_name(NameA), ret + 1)

\* the Result the last record_result call stored in results[1]
LastRecord == results[1].res.records[Len(results[1].res.records)]

\* the labels of the opinions a Result was built from
Labels(r) ==
    UNION {{r.details.out[j][2][k][1] : k \in 1..Len(r.details.out[j][2])} :
              j \in 1..Len(r.details.out)}

AllEqual(samples) == \A j, k \in 1..Len(samples) : samples[j] = samples[k]
AllNumbers(samples) == \A k \in 1..Len(samples) : samples[k].kind = "num"

\* the samples for which the fitted low and high values coincide: identical
\* samples, which ModelLinearRegression widens unless they are not positive
SingularFit(class, samples) ==
    /\ AllNumbers(samples)
    /\ AllEqual(samples)
    /\ class = "ModelStdev" \/ samples[1].num[1] <= 0

Untouched(t) ==
    /\ t \in DOMAIN models'[1].model <=> t \in DOMAIN models[1].model
    /\ t \in DOMAIN models[1].model =>
          models'[1].model[t] = models[1].model[t]

SamplesAverage(samples) ==
    RDiv(SeqSum([k \in 1..Len(samples) |-> samples[k].num]),
         R(Len(samples)))

Generic(r) == ~endswith_mean(r.name) /\ ~endswith_stddev(r.name)

\* C15 as stated: identify leaves alone every metric with a sample that is
\* no number and trains the others; a generic metric has tolerance 0 and a
\* non-negative status when src = dst, a negative one when they differ
C15_GenericEqualUnequal ==
    call.op = "record_result" /\ ~call.raised /\ Generic(LastRecord) =>
        /\ LastRecord.details.tolerance = R(0)
        /\ LastRecord.src = LastRecord.dst => LastRecord.status >= 0
        /\ LastRecord.src # LastRecord.dst => LastRecord.status < 0

\* C15 amended: identify leaves alone every metric with a sample that is no
\* number and trains the other numeric metrics whose fit is not singular; a
\* generic metric has tolerance 0, a negative status when src and dst
\* differ, and when they are equal a non-negative status provided the raw
\* difference is its only opinion (score 0 if equal, 1 if not)
C15_GenericRawOnly ==
    /\ [](call.op = "record_result" /\ ~call.raised /\ Generic(LastRecord) =>
             /\ LastRecord.details.tolerance = R(0)
             /\ LastRecord.src # LastRecord.dst => LastRecord.status < 0
             /\ Labels(LastRecord) \cap {"model", "mraw"} = {}
             /\ OnlyRaw(LastRecord) =>
                   /\ LastRecord.score =
                         IF LastRecord.src = LastRecord.dst THEN R(0)
                         ELSE R(1)
                   /\ LastRecord.src = LastRecord.dst =>
                         LastRecord.status >= 0)
    /\ [][call'.op = "identify" =>
             \A t \in DOMAIN call'.data :
                /\ ~AllNumbers(call'.data[t]) => Untouched(t)
                /\ AllNumbers(call'.data[t])
                      /\ ~SingularFit(models[1].class, call'.data[t]) =>
                         t \in DOMAIN models'[1].model]_vars

C15_Witness ==
    /\ call.op = "record_result"
    /\ models # <<>>
    /\ models[1].metadata.present
    /\ NameA \in DOMAIN models[1].model
    /\ NameB \notin DOMAIN models[1].model
    /\ Generic(LastRecord)
    /\ LastRecord.src = LastRecord.dst
    /\ LastRecord.status = PASS
    /\ Len(results[1].res.records) = 2
    /\ results[1].res.records[1].status = FAIL_GAIN
    /\ Generic(results[1].res.records[1])

\* C16: constructing a model from a file without "__metadata__" turns every
\* entry v into [equation v, raw None] and from a file with it takes the
\* entries as they are; a metric whose entry has raw None gets the opinion
\* ("model", slope * dst + intercept, weight 1) and no "mraw" opinion
C16_LegacyUpgrade ==
    /\ [](call.op = "record_result" /\ ~call.raised /\ models # <<>>
             /\ LastRecord.name \in DOMAIN models[1].model
             /\ models[1].model[LastRecord.name].raw = None =>
                /\ "model" \in Labels(LastRecord)
                /\ "mraw" \notin Labels(LastRecord)
                /\ call.weights[1] = R(1)
                /\ ~averages.last =>
                      LastRecord.score =
                         RAdd(RMul(models[1].model[LastRecord.name].equation[1],
                                   LastRecord.dst.num),
                              models[1].model[LastRecord.name].equation[2]))
    /\ [][call'.op = "model.init" =>
             IF call'.file.exists /\ ~call'.file.metadata.present
             THEN /\ DOMAIN models'[1].model = DOMAIN call'.file.entries
                  /\ \A key \in DOMAIN call'.file.entries :
                        models'[1].model[key] =
                           [equation |-> call'.file.entries[key],
                            raw |-> None]
             ELSE IF call'.file.exists
             THEN /\ models'[1].model = call'.file.entries
                  /\ models'[1].metadata = call'.file.metadata
             ELSE models'[1].model = <<>>]_vars

C16_Witness ==
    /\ call.op = "record_result"
    /\ models # <<>>
    /\ ~models[1].metadata.present
    /\ LastRecord.name = NameA
    /\ NameA \in DOMAIN models[1].model
    /\ models[1].model[NameA].raw = None
    /\ LastRecord.score = <<22, 5>>
    /\ LastRecord.status = MINOR_LOSS

\* the decimal number tenths / 10
Tenths(tenths) == RDiv(R(tenths), R(10))

\* C17: get_uncertainty(n) raises exactly for n <= 0, returns 7, 2.3, 1.7,
\* 1.4, 1.3, 1.3, 1.2, 1.2 for n = 1..8, never more than for n - 1, and 1
\* for every n > 8
C17_UncertaintyTable ==
    call.op = "get_uncertainty" =>
        /\ call.raised <=> call.arg <= 0
        /\ call.arg \in 1..8 =>
              call.ret = Tenths(<<70, 23, 17, 14, 13, 13, 12, 12>>[call.arg])
        /\ call.arg \in 2..8 =>
              RLe(call.ret,
                  Tenths(<<70, 23, 17, 14, 13, 13, 12, 12>>[call.arg - 1]))
        /\ call.arg > 8 => call.ret = R(1)

C17_Witness ==
    /\ call.op = "get_uncertainty"
    /\ call.arg = 8
    /\ ~call.raised
    /\ call.ret = <<6, 5>>

\* the numbers the list of threads is to hold
ExpectedThreads(cpus) ==
    IF cpus \div 4 <= 1 THEN 1..cpus
    ELSE {1, cpus} \cup {n \in 1..cpus : n % (cpus \div 4) = 0}

\* the elements of a set of integers in increasing order
RECURSIVE Increasing(_)
Increasing(S) ==
    IF S = {} THEN <<>>
    ELSE <<CHOOSE m \in S : \A n \in S : m <= n>>
            \o Increasing(S \ {CHOOSE m \in S : \A n \in S : m <= n})

\* C20: list_of_threads(cpus) raises exactly for cpus < 1; otherwise it
\* returns, separated by commas and in increasing order, the numbers of
\* 1..cpus when int(cpus / 4) <= 1 and else 1, the multiples of
\* int(cpus / 4) up to cpus, and cpus; 1 and cpus are always in the list
C20_ListOfThreads ==
    call.op = "list_of_threads" =>
        /\ call.raised <=> call.arg < 1
        /\ ~call.raised =>
              /\ call.text = join(Increasing(ExpectedThreads(call.arg)))
              /\ {1, call.arg} \subseteq ExpectedThreads(call.arg)
              /\ ExpectedThreads(call.arg) \subseteq 1..call.arg
        /\ call.arg = 18 => call.text = "1,4,8,12,16,18"
        /\ call.arg = 7 => call.text = "1,2,3,4,5,6,7"

C20_Witness ==
    /\ call.op = "list_of_threads"
    /\ call.arg = 79
    /\ ~call.raised
    /\ call.text = "1,19,38,57,76,79"

\* C19: wait_for sets the deadline to start time + timeout; func is called
\* only after a reading of the clock before the deadline, so never when
\* timeout <= 0; only the last output of func can be truthy and it is
\* returned at once; None is returned only when the clock was read at or
\* after the deadline and func gave no truthy value
C19_WaitFor ==
    /\ wait.pc # "idle" => wait.end_time = wait.start + wait.timeout
    /\ \A k \in 1..Len(wait.outputs) :
          /\ wait.outputs[k].at < wait.end_time
          /\ k < Len(wait.outputs) => wait.outputs[k].value = 0
    /\ wait.timeout <= 0 => wait.outputs = <<>>
    /\ wait.outputs # <<>> /\ wait.outputs[Len(wait.outputs)].value # 0 =>
          /\ wait.pc = "done"
          /\ wait.ret = <<wait.outputs[Len(wait.outputs)].value>>
    /\ wait.pc = "done" /\ wait.ret = <<>> =>
          /\ wait.read >= wait.end_time
          /\ \A k \in 1..Len(wait.outputs) : wait.outputs[k].value = 0
    /\ wait.pc = "done" /\ wait.ret # <<>> =>
          /\ wait.outputs # <<>>
          /\ wait.ret[1] # 0

C19_Witness ==
    /\ wait.pc = "done"
    /\ wait.ret = <<>>
    /\ wait.timeout > 0
    /\ Len(wait.outputs) = 2
    /\ wait.read = wait.end_time

\* the primary Results of records followed by grouped_records
PrimaryResults(rr) ==
    SelectSeq(rr.records \o rr.grouped_records, LAMBDA t : t.primary)

CountElements(doc, element_type) ==
    Cardinality({k \in 1..Len(doc.testcases) :
                    doc.testcases[k].element = element_type})

\* C18: get_xunit emits one testcase per primary Result of records followed
\* by grouped_records, in that order, and none for the others; the child is
\* "skipped" iff the status is FAIL_GAIN, "failure" iff it is FAIL/FAIL_LOSS,
\* "error" iff it is another negative status, and absent iff the status is
\* not negative; skipped, failures and errors count those children
C18_Xunit ==
    call.op = "get_xunit" =>
        /\ Len(call.ret.testcases) = Len(PrimaryResults(results[call.i].res))
        /\ \A k \in 1..Len(call.ret.testcases) :
              /\ call.ret.testcases[k].name =
                    PrimaryResults(results[call.i].res)[k].name
              /\ call.ret.testcases[k].element = "skipped" <=>
                    PrimaryResults(results[call.i].res)[k].status = FAIL_GAIN
              /\ call.ret.testcases[k].element = "failure" <=>
                    PrimaryResults(results[call.i].res)[k].status
                       \in {FAIL, FAIL_LOSS}
              /\ call.ret.testcases[k].element = "error" <=>
                    /\ PrimaryResults(results[call.i].res)[k].status < 0
                    /\ PrimaryResults(results[call.i].res)[k].status
                          \notin {FAIL, FAIL_LOSS, FAIL_GAIN}
              /\ call.ret.testcases[k].element = "" <=>
                    PrimaryResults(results[call.i].res)[k].status >= 0
        /\ call.ret.skipped = CountElements(call.ret, "skipped")
        /\ call.ret.failures = CountElements(call.ret, "failure")
        /\ call.ret.errors = CountElements(call.ret, "error")

C18_Witness ==
    /\ call.op = "get_xunit"
    /\ results[1].res.grouped_records # <<>>
    /\ \E k \in 1..Len(results[1].res.records) :
          /\ ~results[1].res.records[k].primary
          /\ results[1].res.records[k].status < 0
    /\ call.ret.skipped >= 1
    /\ Len(call.ret.testcases) >= 2
    /\ \E k \in 1..Len(call.ret.testcases) :
          call.ret.testcases[k].element = ""

\* the opinions of the models mdls[i..] on one comparison, in order
RECURSIVE ModelOpinions(_, _, _, _, _)
ModelOpinions(mdls, i, test_name, src, dst) ==
    IF i > Len(mdls) THEN <<>>
    ELSE check_result(mdls[i], test_name, src, dst)
            \o ModelOpinions(mdls, i + 1, test_name, src, dst)

SumWeights(opinions) ==
    SeqSum([k \in 1..Len(opinions) |-> opinions[k].weight])

SumWeighted(opinions) ==
    SeqSum([k \in 1..Len(opinions) |->
               RMul(opinions[k].difference, opinions[k].weight)])

\* the score record_result handed to the averages: what the call added to
\* the sum the AveragesModel keeps for the test
ScoreBeforeAverages(test_name) ==
    RSub(averages_entry(averages', test_name)[1],
         averages_entry(averages, test_name)[1])

\* the weight the call gave the raw difference: the sum of weights at its
\* first division less the weights of the models' opinions
RawWeightGiven(opinions) == RSub(call'.weights[1], SumWeights(opinions))

RawDifference(r) ==
    calculate_test_difference(mean_tolerance, stddev_tolerance, r.name,
                              r.src, r.dst)[1]

\* C21: record_result gives the raw difference weight 1 exactly when the
\* weights of the models' opinions sum to 0 and weight 0 otherwise; the
\* score before the averages then is the raw difference, respectively
\* sum(difference * weight) / sum(weight) over the models' opinions
C21_RawWeight ==
    [][call'.op = "record_result" /\ ~call'.raised =>
          \E r \in {results'[1].res.records[Len(results'[1].res.records)]} :
          \E opinions \in {ModelOpinions(models, 1, r.name, r.src, r.dst)} :
             /\ RawWeightGiven(opinions) =
                   IF RIsZero(SumWeights(opinions)) THEN R(1) ELSE R(0)
             /\ RIsZero(SumWeights(opinions)) =>
                   ScoreBeforeAverages(r.name) = RawDifference(r)
             /\ ~RIsZero(SumWeights(opinions)) =>
                   ScoreBeforeAverages(r.name) =
                      RDiv(SumWeighted(opinions), SumWeights(opinions))]_vars

C21_Witness ==
    /\ call.op = "record_result"
    /\ models = <<TrainedA>>
    /\ LastRecord.name = NameA
    /\ LastRecord.dst = N(104)
    /\ LastRecord.score = <<22, 5>>
    /\ RawDifference(LastRecord) = R(4)
    /\ call.weights[1] = R(1)

\* the positions in records at which pass p meets a merged name first
FirstPositions(rr, p) ==
    {k \in Eligible(rr) :
        \A j \in Eligible(rr) :
           get_merged_name(rr.records[j].name, Merges[p]) =
              get_merged_name(rr.records[k].name, Merges[p]) => k <= j}

\* the merged names of pass p in the order of their first record
PassNames(rr, p) ==
    [j \in 1..Cardinality(FirstPositions(rr, p)) |->
        get_merged_name(rr.records[Increasing(FirstPositions(rr, p))[j]].name,
                        Merges[p])]

\* the arithmetic mean of the scores of the records merged into name
GroupMean(rr, p, name) ==
    RDiv(SeqSum([j \in 1..GroupSize(rr, p, name) |->
                    rr.records[Increasing(
                        {k \in Eligible(rr) :
                            get_merged_name(rr.records[k].name, Merges[p])
                               = name})[j]].score]),
         R(GroupSize(rr, p, name)))

\* C22: expand_grouped_results appends, pass after pass (merging
\* iteration_name_extra; that and profile; all but profile and check type),
\* one Result per distinct merged name of the primary, non-ERROR,
\* non-stddev records; it is primary, its src and dst are the mean of the
\* group's scores, and so is the raw difference: the averages receive for
\* each merged name the means of its groups
C22_GroupedMeans ==
    [][call'.op = "expand_grouped_results" /\ ~call'.raised =>
          \E rr \in {results[1].res} :
          \E names \in {PassNames(rr, 1) \o PassNames(rr, 2)
                           \o PassNames(rr, 3)} :
             /\ Len(results'[1].res.grouped_records) =
                   Len(rr.grouped_records) + Len(names)
             /\ \A j \in 1..Len(names) :
                   \E g \in {results'[1].res.grouped_records[
                                Len(rr.grouped_records) + j]} :
                   \E mean \in {GroupMean(rr, PassOf(rr, j), names[j])} :
                      /\ g.name = names[j]
                      /\ g.primary
                      /\ g.src = Num(mean)
                      /\ g.dst = Num(mean)
                      /\ ~averages.last => g.score = mean
             /\ \A j \in 1..Len(names) :
                   ScoreBeforeAverages(names[j]) =
                      SeqSum([k \in 1..Len(names) |->
                                 IF names[k] = names[j]
                                 THEN GroupMean(rr, PassOf(rr, k), names[k])
                                 ELSE R(0)])]_vars

C22_Witness ==
    /\ call.op = "expand_grouped_results"
    /\ Len(results[1].res.records) = 2
    /\ results[1].res.records[1].score = R(-20)
    /\ results[1].res.records[2].score = R(4)
    /\ Len(results[1].res.grouped_records) = 3
    /\ \A j \in 1..3 :
          /\ results[1].res.grouped_records[j].src = N(-8)
          /\ results[1].res.grouped_records[j].dst = N(-8)
          /\ results[1].res.grouped_records[j].primary

\* C23: records and grouped_records only grow at their end: every call
\* keeps what they held, in the same order and with every field of every
\* Result as it was; record_result and record_broken append one Result to
\* records, expand_grouped_results and evaluate append to grouped_records
\* only, and per_type_stats, sum_stats, get_xunit and finish change neither
C23_AppendOnly ==
    [][\A i \in 1..Len(results) :
          /\ Len(results') = Len(results)
          /\ IsPrefix(results[i].res.records, results'[i].res.records)
          /\ IsPrefix(results[i].res.grouped_records,
                      results'[i].res.grouped_records)
          /\ call'.op \in {"record_result", "record_broken"} =>
                Len(results'[i].res.records)
                   <= Len(results[i].res.records) + 1
          /\ call'.op = "expand_grouped_results" =>
                results'[i].res.records = results[i].res.records
          /\ call'.op \in {"per_type_stats", "sum_stats", "get_xunit",
                           "finish"} =>
                results'[i].res = results[i].res]_vars

C23_Witness ==
    /\ call.op = "sum_stats"
    /\ Len(results[1].res.records) = 2
    /\ results[1].res.records[1].status = ERROR
    /\ results[1].res.records[2].status = FAIL_GAIN
    /\ Len(results[1].res.grouped_records) = 6
    /\ call.ret.errors = 1
    /\ Len(call.ret.gains) = 1

\* two tests of one metric: equal but for the check type
SameMetric(a, b) ==
    \A field \in DOMAIN a \ {"check_type"} : a[field] = b[field]

InBaseline(t) ==
    \E k \in 1..Len(baseline) : SameMetric(baseline[k].test, t.test)

\* the candidates without the tuples of metrics the baseline lacks
WithoutDstOnly ==
    [i \in 1..Len(candidates) |->
        SelectSeq(candidates[i], LAMBDA t : InBaseline(t))]

\* C24: the totals of every candidate, and with them the returned index,
\* are what closest_result computes for the candidates stripped of every
\* metric absent from the baseline
C24_DstOnlyIgnored ==
    pc # "src" =>
        \E st \in {calculate_stats(
                      [stats |-> [c \in 1..2 |->
                                     [k \in 1..Len(candidates) |-> 0]],
                       raised |-> FALSE, log |-> <<>>],
                      Src, process_results(<<>>, WithoutDstOnly, 1), 1)} :
           /\ (pc = "raised") <=> st.raised
           /\ pc # "raised" => stats = st.stats

C24_Witness ==
    /\ pc = "done"
    /\ Len(candidates) = 3
    /\ WithoutDstOnly[1] # candidates[1]
    /\ WithoutDstOnly[2] = candidates[2]
    /\ \E k \in 1..Len(candidates[3]) :
          /\ candidates[3][k].test = [NameB EXCEPT !.check_type = "stddev"]
          /\ candidates[3][k].score = N(3)
    /\ ret = 1

\* ------------------------------------------------------------------------
\* tests.BaseTest.run (tests.py:46-54)
\* ------------------------------------------------------------------------
\* the number of groups of workers and the min_groups of a test class
MaxWorkers == 8
MaxMinGroups == 4

\* the "%s" of the message's format and the values the % operator is given:
\* % binds before the comma, so the format gets len(self.workers) alone
Placeholders == 2
FormatArgs == 1

\* format % values raises TypeError unless the values match the placeholders
format_raises(placeholders, values) == placeholders # values

\* what _run of the test class does: <<exception raised, value returned>>
RunOutcomes ==
    { <<"", "None">>, <<"", "result">>, <<"NotImplementedError", "None">> }

\* run() (tests.py:46-54): the exception it ends with, whether the SKIP file
\* was written, whether _run was called, and the value returned
run(workers, min_groups, outcome) ==
    IF workers < min_groups
    THEN IF format_raises(Placeholders, FormatArgs)
         THEN [raised |-> "TypeError", skip_file |-> FALSE,
               called_run |-> FALSE, ret |-> "None"]
         ELSE [raised |-> "TestSkip", skip_file |-> TRUE,
               called_run |-> FALSE, ret |-> "None"]
    ELSE [raised |-> outcome[1], skip_file |-> FALSE, called_run |-> TRUE,
          ret |-> outcome[2]]

Run(workers, min_groups, outcome) ==
    /\ call' = [op |-> "run", workers |-> workers, min_groups |-> min_groups,
                outcome |-> outcome,
                ret |-> run(workers, min_groups, outcome)]
    /\ UNCHANGED <<container_vars, closest_vars, wait>>

InitTests == InitUtils

NextTests ==
    \E workers \in 0..MaxWorkers, min_groups \in 1..MaxMinGroups,
       outcome \in RunOutcomes :
          Run(workers, min_groups, outcome)

SpecTests == InitTests /\ [][NextTests]_vars

\* ------------------------------------------------------------------------
\* ModelLinearRegression.check_result called on a trained model
\* ------------------------------------------------------------------------
\* the division by abs(msrc) raises ZeroDivisionError (result.py:132-135)
mraw_raises(model, test_name, src) ==
    /\ test_name \in DOMAIN model
    /\ model[test_name].raw # None
    /\ endswith_mean(test_name)
    /\ src # Num(R(0))
    /\ RIsZero(model[test_name].raw.num)

\* the historical baselines of the trained entries
CheckRaws == {None, N(0), N(100), N(-50)}

CheckModels ==
    { (NameA :> [equation |-> << <<11, 10>>, R(-110) >>, raw |-> raw])
         @@ (NameS :> [equation |-> << R(1), R(-10) >>, raw |-> raw]) :
      raw \in CheckRaws }

CheckValues == {N(0), N(80), N(100), N(120)}

\* check_result(test_name, src, dst) (result.py:124-140)
CheckResult(model, test_name, src, dst) ==
    /\ call' = [op |-> "model.check_result", model |-> model,
                test_name |-> test_name, src |-> src, dst |-> dst,
                raised |-> mraw_raises(model, test_name, src),
                ret |-> IF mraw_raises(model, test_name, src) THEN <<>>
                        ELSE linreg_check_result(model, test_name, src, dst)]
    /\ UNCHANGED <<container_vars, closest_vars, wait>>

InitCheckResult == InitUtils

NextCheckResult ==
    \E model \in CheckModels, test_name \in {NameA, NameB, NameS},
       src \in CheckValues, dst \in CheckValues :
          CheckResult(model, test_name, src, dst)

SpecCheckResult == InitCheckResult /\ [][NextCheckResult]_vars

AllPositive(samples) ==
    \A k \in 1..Len(samples) : RGt(samples[k].num, R(0))

\* average * (1 + sign * tolerance / 100 / 1.1)
BandEdge(samples, tolerance, sign) ==
    RMul(SamplesAverage(samples),
         RAdd(R(1), RMul(R(sign), RDiv(RDiv(tolerance, R(100)), <<11, 10>>))))

SampleValues(samples) == {samples[k].num : k \in 1..Len(samples)}

\* the 'model' difference check_result gives for dst
ModelDifference(model, test, dst) ==
    linreg_check_result(model, test, Num(dst), Num(dst))[1].difference

\* C25: for positive samples ModelLinearRegression.identify stores the line
\* that gives -tolerance at low and +tolerance at high, low being the least
\* sample or the lower edge of the band average * (1 +- tolerance/100/1.1),
\* whichever is smaller, and high the greatest sample or the upper edge,
\* whichever is greater; within the band the difference stays within
\* the tolerance
C25_LineThroughRange ==
    [][call'.op = "identify" /\ models[1].class = "ModelLinearRegression" =>
          \A t \in DOMAIN call'.data :
             AllNumbers(call'.data[t]) /\ AllPositive(call'.data[t]) =>
                \E tol \in {models[1].mean_tolerance} :
                \E low \in {RMin(SampleValues(call'.data[t])
                                    \cup {BandEdge(call'.data[t], tol, -1)})} :
                \E high \in {RMax(SampleValues(call'.data[t])
                                     \cup {BandEdge(call'.data[t], tol, 1)})} :
                   /\ t \in DOMAIN models'[1].model
                   /\ RLe(low, BandEdge(call'.data[t], tol, -1))
                   /\ RLe(BandEdge(call'.data[t], tol, 1), high)
                   /\ ModelDifference(models'[1].model, t, low)
                         = RSub(R(0), tol)
                   /\ ModelDifference(models'[1].model, t, high) = tol
                   /\ \A dst \in {BandEdge(call'.data[t], tol, -1),
                                  SamplesAverage(call'.data[t]),
                                  BandEdge(call'.data[t], tol, 1)} :
                         RLe(RAbs(ModelDifference(models'[1].model, t, dst)),
                             tol)]_vars

C25_Witness ==
    /\ call.op = "identify"
    /\ models[1].class = "ModelLinearRegression"
    /\ call.data[NameA] = <<N(100)>>
    /\ call.data[NameB] = <<N(90), N(110)>>
    /\ models[1].model[NameA].equation = << <<11, 10>>, R(-110) >>
    /\ models[1].model[NameB].equation = << R(1), R(-100) >>

\* C26: a Result reported as MINOR_LOSS has a negative score; a score of 0
\* under a positive tolerance is reported as PASS, and sum_stats lists it
\* with the equals, never with the minor losses
C26_MinorLossNegative ==
    /\ \A r \in ReportResults :
          /\ r.status = MINOR_LOSS => RLt(r.score, R(0))
          /\ RIsZero(r.score) /\ RGt(r.details.tolerance, R(0))
                => r.status = PASS
    /\ call.op = "sum_stats" =>
          \A k \in 1..Len(call.ret.m_losses) :
             RLt(call.ret.m_losses[k], R(0))

\* the Results of a sequence that record_result reported
Reported(recs) ==
    {recs[k] : k \in {j \in 1..Len(recs) : recs[j].details.text = "report"}}

\* the first destination was added with last unset (its compared records
\* carry no 'avg' opinion) and the final one with last set
OnlyFinalIsLast ==
    /\ Len(results) = Len(DestNames)
    /\ averages.last
    /\ Reported(results[1].res.records) # {}
    /\ \A r \in Reported(results[1].res.records) : "avg" \notin Labels(r)

\* C27: when only the final add_result_by_path passes last=True, no Result
\* of an earlier destination, in its records or its grouped_records, carries
\* an 'avg' opinion, whenever that destination is evaluated
C27_AvgOnlyOnLast ==
    OnlyFinalIsLast =>
       \A g \in Reported(results[1].res.grouped_records) :
          "avg" \notin Labels(g)

\* the historical baseline of the entry the last check_result looked up
CheckedRaw == call.model[call.test_name].raw

\* C28: for a trained entry with a known baseline raw, check_result never
\* raises and returns after the "model" opinion an "mraw" opinion of weight
\* 0 that depends on dst and raw alone: for a mean metric 0 when raw is 0
\* and (dst - raw) / |raw| * 100 otherwise, for another metric raw - dst
C28_MrawFromRaw ==
    call.op = "model.check_result" /\ call.test_name \in DOMAIN call.model
          /\ CheckedRaw # None =>
       /\ ~call.raised
       /\ Len(call.ret) = 2
       /\ call.ret[2].name = "mraw"
       /\ call.ret[2].weight = R(0)
       /\ call.ret[2].difference =
             IF ~endswith_mean(call.test_name)
             THEN RSub(CheckedRaw.num, call.dst.num)
             ELSE IF RIsZero(CheckedRaw.num) THEN R(0)
             ELSE RMul(RDiv(RSub(call.dst.num, CheckedRaw.num),
                            RAbs(CheckedRaw.num)), R(100))

\* C29: the 'tests' attribute of the testsuite get_xunit returns equals the
\* number of testcase elements of the document, whatever mix of primary,
\* non-primary and grouped Results the RelativeResults holds
C29_TestsCountsTestcases ==
    call.op = "get_xunit" => call.ret.tests = Len(call.ret.testcases)

\* C30: BaseTest.run with fewer groups of workers than min_groups writes the
\* SKIP file and raises TestSkip without calling _run; with at least
\* min_groups groups it calls _run and returns what _run returns
C30_RunSkips ==
    call.op = "run" =>
       /\ call.workers < call.min_groups =>
             /\ call.ret.skip_file
             /\ call.ret.raised = "TestSkip"
             /\ ~call.ret.called_run
       /\ call.workers >= call.min_groups =>
             /\ call.ret.called_run
             /\ ~call.ret.skip_file
             /\ call.ret.raised = call.outcome[1]
             /\ call.ret.ret = call.outcome[2]

====
